---- MODULE Spec2Model ----
(***************************************************************************)
(* Cascading authenticated encryption (xyfir/cascade, libsodium variant).  *)
(*                                                                         *)
(* Byte strings are symbolic terms, written as tagged tuples:              *)
(*   <<"zero", n>>                 n zero bytes (a wiped buffer)           *)
(*   <<"data", s>>                 caller plaintext, s a sequence of bytes *)
(*   <<"ph", pw, salt, ops, mem>>  Argon2id output (32 bytes)              *)
(*   <<"rnd", id, len>>            the CSPRNG output of draw id, len bytes *)
(*   <<"kdf", key, ctx, id, len>>  crypto_kdf_derive_from_key output       *)
(*   <<"blob", alg, key, nonce, pt, mod>>                                  *)
(*       one layer's frame nonce || ciphertext || tag: pt sealed by suite  *)
(*       alg under key and nonce; mod is "intact", or names the region of  *)
(*       the frame ("nonce", "body", "tag") in which a position was        *)
(*       modified after the seal                                           *)
(* The primitives are ideal: the password hash, the KDF and the AEAD are   *)
(* injective in their inputs and a modified region never verifies.  The    *)
(* CSPRNG never repeats: a draw is named by the call that makes it (the    *)
(* object the call produces, the role of the value, the layer index), and  *)
(* two different draws give different values.                              *)
(***************************************************************************)
EXTENDS Integers, Sequences, FiniteSets, TLC

\* ---------------------------------------------------------------------
\* Bounds of the model
\* ---------------------------------------------------------------------
MaxL == 2          \* longest layer list of the key-lifecycle specifications
MaxCfg == 11       \* longest config.layers array the caller builds
MaxOther == 1      \* entries of that array that are not AES-256-GCM
MaxTwice == 2      \* encrypt calls of the repeated-encryption specification
MaxFaultKeys == 1  \* password keys, and generated master keys, of the
                   \* failing-step specification
MaxPK == 2         \* password keys a behaviour derives
MaxMK == 2         \* master keys a behaviour holds
MaxEMK == 3        \* encrypted master keys a behaviour holds
MaxED == 1         \* EncryptedData values a behaviour holds
\* Password keys of the caller that shortens config.layers.
MaxSharedPK == 1
\* Callers of getSodium() that run concurrently.
MaxCallers == 4
\* Password keys, and generated master keys, of the caller that wipes keys
\* and goes on using them.
MaxWipeKeys == 1

\* ---------------------------------------------------------------------
\* Program constants
\* ---------------------------------------------------------------------
RAW_KEY_MATERIAL_LENGTH == 32
MAX_LAYERS == 10
KEY_LENGTH == 32
TAG_LENGTH == 16
GCM_IV_LENGTH == 12
XCHACHA_NONCE_LENGTH == 24
COUNTER_LENGTH == 16
MAC_LENGTH == 32
AES_KEY_LENGTH == 32
DERIVED_KEY_LENGTH == 32
ARGON2_OPSLIMIT_MIN == 1
ARGON2_MEMLIMIT_MIN == 8192
ARGON2_OPSLIMIT_INTERACTIVE == 2
ARGON2_MEMLIMIT_INTERACTIVE == 67108864

KDF_CONTEXT_PASSWORD == "cascpwdk"
KDF_CONTEXT_MASTER == "cascmstk"
KDF_CONTEXT_CONTENT == "cascctnt"

AES_256_GCM == "AES-256-GCM"
XCHACHA20_POLY1305 == "XChaCha20-Poly1305"
AES_256_CTR_HMAC == "AES-256-CTR-HMAC"

\* The algorithm registry of cascade.ts: the two registered suites.
SUITES ==
  [a \in {AES_256_GCM, XCHACHA20_POLY1305} |->
     IF a = AES_256_GCM
       THEN [algorithm |-> a, keyLength |-> KEY_LENGTH,
             nonceLength |-> GCM_IV_LENGTH,
             minCiphertextLength |-> GCM_IV_LENGTH + TAG_LENGTH]
       ELSE [algorithm |-> a, keyLength |-> KEY_LENGTH,
             nonceLength |-> XCHACHA_NONCE_LENGTH,
             minCiphertextLength |-> XCHACHA_NONCE_LENGTH + TAG_LENGTH]]

Registered == DOMAIN SUITES

\* Every name a caller can put into config.layers; the third one is the other
\* build's suite, which this registry does not know.
Algorithm == {AES_256_GCM, XCHACHA20_POLY1305, AES_256_CTR_HMAC}

\* getSuite throws for a name that is not in the registry.
getSuiteThrows(algorithm) == algorithm \notin Registered

getSuite(algorithm) == SUITES[algorithm]

\* ---------------------------------------------------------------------
\* Byte strings
\* ---------------------------------------------------------------------
Zero(n) == <<"zero", n>>

\* The length of the authenticator a suite appends to a frame: the GCM or
\* Poly1305 tag, or the HMAC-SHA-256 of AES-256-CTR-HMAC.
TagLength(alg) == IF alg = AES_256_CTR_HMAC THEN MAC_LENGTH ELSE TAG_LENGTH

RECURSIVE ByteLen(_)
ByteLen(v) ==
  CASE v[1] = "zero" -> v[2]
    [] v[1] = "data" -> Len(v[2])
    [] v[1] = "ph"   -> DERIVED_KEY_LENGTH
    [] v[1] = "rnd"  -> v[3]
    [] v[1] = "kdf"  -> v[5]
    [] v[1] = "blob" -> ByteLen(v[4]) + ByteLen(v[5]) + TagLength(v[2])

\* A generator that returns the same bytes at every draw.
randombytes_repeat(id, len) == <<"rnd", <<"", 0, "", 0>>, len>>

\* sodium.randombytes_buf / crypto.getRandomValues: the value of draw id.
randombytes_buf(id, len) == <<"rnd", id, len>>

\* The name of a draw: made for slot `slot` of pool `pool`, in role `role`,
\* at layer index i.
Draw(pool, slot, role, i) == <<pool, slot, role, i>>

\* secureWipe: the content of a buffer after sodium.memzero.
secureWipe(v) == Zero(ByteLen(v))

\* A kdf that derives subkey 0 whatever the subkey id.
kdfFirstSubkey(key, context, subkeyId, lengthBytes) ==
  <<"kdf", key, context, 0, lengthBytes>>

\* kdf: crypto_kdf_derive_from_key(lengthBytes, subkeyId, context, key).
kdf(key, context, subkeyId, lengthBytes) ==
  <<"kdf", key, context, subkeyId, lengthBytes>>

\* argon2 refuses a cost below the minimum before it hashes.  (A salt is
\* named here by a number; every salt a caller passes has the right length.)
argon2Throws(opsLimit, memLimit) ==
  opsLimit < ARGON2_OPSLIMIT_MIN \/ memLimit < ARGON2_MEMLIMIT_MIN

\* argon2 (crypto_pwhash, Argon2id): DERIVED_KEY_LENGTH bytes from password,
\* salt and cost.
argon2(password, salt, opsLimit, memLimit) ==
  <<"ph", password, salt, opsLimit, memLimit>>

\* ---------------------------------------------------------------------
\* Cipher suites (aesGcm.ts, xchacha20.ts)
\* ---------------------------------------------------------------------
Thrown(msg) == [ok |-> FALSE, val |-> Zero(0), err |-> msg]

Returned(v) == [ok |-> TRUE, val |-> v, err |-> ""]

\* A key check that also refuses a key of zero bytes only.
validateKeyNotWiped(key) == ByteLen(key) = KEY_LENGTH /\ key[1] # "zero"

\* validateKey: the key must be KEY_LENGTH bytes long.
validateKey(key) == ByteLen(key) = KEY_LENGTH

\* What the AEAD primitive of a suite reports when authentication fails.
AuthError(alg) ==
  IF alg = AES_256_GCM THEN "OperationError"
  ELSE "ciphertext cannot be decrypted using that key"

\* A seal that draws a 12-byte nonce whatever the suite.
suiteEncryptGcmNonce(alg, data, key, id, refused) ==
  IF ~validateKey(key) THEN Thrown("key must be 32 bytes")
  ELSE LET nonce == randombytes_buf(id, GCM_IV_LENGTH)
       IN IF refused THEN Thrown("PrimitiveUnavailable")
          ELSE Returned(<<"blob", alg, key, nonce, data, "intact">>)

\* suite.encrypt(data, key): validate the key, draw the nonce from the CSPRNG
\* (draw id), seal, return nonce || ciphertext || tag.  refused: the host's
\* AEAD primitive rejects the call.
suiteEncrypt(alg, data, key, id, refused) ==
  IF ~validateKey(key) THEN Thrown("key must be 32 bytes")
  ELSE LET nonce == randombytes_buf(id, getSuite(alg).nonceLength)
       IN IF refused THEN Thrown("PrimitiveUnavailable")
          ELSE Returned(<<"blob", alg, key, nonce, data, "intact">>)

\* aesCtrHmac.encrypt(data, keys): draw the counter block from the CSPRNG
\* (draw id), encrypt, MAC counter || ciphertext, return
\* counter || ciphertext || mac.  keys is the pair <<aesKey, hmacKey>>.
aesCtrHmacEncrypt(data, keys, id) ==
  LET counter == randombytes_buf(id, COUNTER_LENGTH)
  IN <<"blob", AES_256_CTR_HMAC, keys, counter, data, "intact">>

\* A comparison that returns at the first byte that differs.
constantTimeEqualEarlyExit(lenA, lenB, diff) ==
  IF lenA # lenB THEN [equal |-> FALSE, visited |-> 0]
  ELSE IF diff \cap (0 .. lenA - 1) = {}
    THEN [equal |-> TRUE, visited |-> lenA]
  ELSE [equal |-> FALSE,
        visited |-> 1 + CHOOSE i \in diff \cap (0 .. lenA - 1) :
                          \A j \in diff \cap (0 .. lenA - 1) : i <= j]

\* constantTimeEqual(a, b) of two arrays of lenA and lenB bytes that differ
\* at the positions diff: the loop ORs a[i] ^ b[i] into result for every i.
\* visited counts the bytes the loop has read.
RECURSIVE constantTimeEqualFrom(_, _, _, _)
constantTimeEqualFrom(i, result, lenA, diff) ==
  IF i >= lenA THEN [equal |-> (result = 0), visited |-> i]
  ELSE constantTimeEqualFrom(i + 1,
                             IF i \in diff THEN 1 ELSE result, lenA, diff)

constantTimeEqual(lenA, lenB, diff) ==
  IF lenA # lenB THEN [equal |-> FALSE, visited |-> 0]
  ELSE constantTimeEqualFrom(0, 0, lenA, diff)

\* The HMAC-SHA-256 over counter || ciphertext under the MAC sub-key of keys
\* equals the MAC at the end of the frame: the frame was sealed under these
\* keys and no position of it was modified since.
MacMatches(data, keys) ==
  /\ data[1] = "blob"
  /\ data[2] = AES_256_CTR_HMAC
  /\ data[3] = keys
  /\ data[6] = "intact"

\* aesCtrHmac.decrypt(data, keys): minimum length, HMAC over
\* counter || ciphertext, comparison with the received MAC, AES-CTR.  diff:
\* the positions at which the received and the computed MAC differ.  steps
\* lists what was invoked, in order.
aesCtrHmacDecrypt(data, keys, diff) ==
  IF ByteLen(data) < COUNTER_LENGTH + MAC_LENGTH
    THEN [ok |-> FALSE, val |-> Zero(0), err |-> "ciphertext too short",
          steps |-> <<"length">>, visited |-> 0]
  ELSE LET c == constantTimeEqual(MAC_LENGTH, MAC_LENGTH, diff)
       IN IF ~c.equal
            THEN [ok |-> FALSE, val |-> Zero(0),
                  err |-> "HMAC verification failed",
                  steps |-> <<"length", "sign", "compare">>,
                  visited |-> c.visited]
            ELSE [ok |-> TRUE, val |-> data[5], err |-> "",
                  steps |-> <<"length", "sign", "compare", "decrypt">>,
                  visited |-> c.visited]

\* An open that does not bind the frame to the key.
AeadOpensAnyKey(blob, alg, key) ==
  /\ blob[1] = "blob"
  /\ blob[2] = alg
  /\ blob[6] = "intact"

\* An open that does not verify the tag.
AeadOpensUnverified(blob, alg, key) ==
  /\ blob[1] = "blob"
  /\ blob[2] = alg
  /\ blob[3] = key

\* The AEAD open of a frame split into nonce, body and tag: the tag verifies
\* when the frame was sealed by this suite under this key and no position of
\* it was modified since.
AeadOpens(blob, alg, key) ==
  /\ blob[1] = "blob"
  /\ blob[2] = alg
  /\ blob[3] = key
  /\ blob[6] = "intact"

\* An open that hands back the frame's nonce in place of the plaintext.
AeadPlaintextNonce(blob) == blob[4]

\* What a verified open returns: the plaintext that was sealed.
AeadPlaintext(blob) == blob[5]

\* An open that checks the length of the blob before the length of the key.
suiteDecryptLengthFirst(alg, data, key, refused) ==
  IF ByteLen(data) < getSuite(alg).minCiphertextLength
    THEN Thrown("ciphertext too short")
  ELSE IF ~validateKey(key) THEN Thrown("key must be 32 bytes")
  ELSE IF refused THEN Thrown("PrimitiveUnavailable")
  ELSE IF ~AeadOpens(data, alg, key) THEN Thrown(AuthError(alg))
  ELSE Returned(AeadPlaintext(data))

\* suite.decrypt(data, key): key length, then minimum length, then the AEAD.
suiteDecrypt(alg, data, key, refused) ==
  IF ~validateKey(key) THEN Thrown("key must be 32 bytes")
  ELSE IF ByteLen(data) < getSuite(alg).minCiphertextLength
    THEN Thrown("ciphertext too short")
  ELSE IF refused THEN Thrown("PrimitiveUnavailable")
  ELSE IF ~AeadOpens(data, alg, key) THEN Thrown(AuthError(alg))
  ELSE Returned(AeadPlaintext(data))

\* ---------------------------------------------------------------------
\* cascade.ts: per-layer keys and the two cascades
\* ---------------------------------------------------------------------
\* deriveLayerKeys(rawMaterial, layers, context): one kdf call per layer, in
\* index order.  failAt is the layer index whose kdf call the host refuses.
\* A derivation that binds the layer's algorithm into the kdf context.
RECURSIVE deriveLayerKeysBoundFrom(_, _, _, _, _, _)
deriveLayerKeysBoundFrom(i, layerKeys, rawMaterial, layers, context, failAt) ==
  IF i >= Len(layers) THEN [ok |-> TRUE, keys |-> layerKeys, err |-> ""]
  ELSE IF getSuiteThrows(layers[i + 1])
    THEN [ok |-> FALSE, keys |-> <<>>, err |-> "Unknown algorithm"]
  ELSE IF failAt = i
    THEN [ok |-> FALSE, keys |-> <<>>, err |-> "PrimitiveUnavailable"]
  ELSE deriveLayerKeysBoundFrom(i + 1,
         Append(layerKeys,
                [algorithm |-> layers[i + 1],
                 key |-> kdf(rawMaterial, <<context, layers[i + 1]>>, i,
                             getSuite(layers[i + 1]).keyLength)]),
         rawMaterial, layers, context, failAt)

RECURSIVE deriveLayerKeysFrom(_, _, _, _, _, _)
deriveLayerKeysFrom(i, layerKeys, rawMaterial, layers, context, failAt) ==
  IF i >= Len(layers) THEN [ok |-> TRUE, keys |-> layerKeys, err |-> ""]
  ELSE IF getSuiteThrows(layers[i + 1])
    THEN [ok |-> FALSE, keys |-> <<>>, err |-> "Unknown algorithm"]
  ELSE IF failAt = i
    THEN [ok |-> FALSE, keys |-> <<>>, err |-> "PrimitiveUnavailable"]
  ELSE deriveLayerKeysFrom(i + 1,
         Append(layerKeys,
                [algorithm |-> layers[i + 1],
                 key |-> kdf(rawMaterial, context, i,
                             getSuite(layers[i + 1]).keyLength)]),
         rawMaterial, layers, context, failAt)

deriveLayerKeys(rawMaterial, layers, context, failAt) ==
  deriveLayerKeysFrom(0, <<>>, rawMaterial, layers, context, failAt)

\* cascadeEncrypt(data, layers, layerKeys): layers 0 .. L-1 in order, each on
\* the previous layer's output.  keys[i + 1] is layerKeys[i].key; the nonce
\* of layer i is the draw nonceOf[i + 1].
RECURSIVE cascadeEncryptFrom(_, _, _, _, _, _)
cascadeEncryptFrom(i, current, layers, keys, nonceOf, failAt) ==
  IF i >= Len(layers) THEN Returned(current)
  ELSE IF getSuiteThrows(layers[i + 1]) THEN Thrown("Unknown algorithm")
  ELSE IF i + 1 > Len(keys) THEN Thrown("TypeError")
  ELSE LET r == suiteEncrypt(layers[i + 1], current, keys[i + 1],
                             nonceOf[i + 1], failAt = i)
       IN IF ~r.ok THEN r
          ELSE cascadeEncryptFrom(i + 1, r.val, layers, keys, nonceOf, failAt)

Reversed(l) == [i \in 1 .. Len(l) |-> l[Len(l) + 1 - i]]

\* A cascade seal whose loop runs from the last layer down to the first.
cascadeEncryptDownward(data, layers, keys, nonceOf, failAt) ==
  cascadeEncryptFrom(0, data, Reversed(layers),
                     Reversed(SubSeq(keys, 1, Len(layers))), nonceOf, failAt)

\* A cascade seal that returns what the layers before a failing one made.
cascadeEncryptPartial(data, layers, keys, nonceOf, failAt) ==
  LET r == cascadeEncryptFrom(0, data, layers, keys, nonceOf, failAt)
  IN IF r.ok \/ failAt < 0 THEN r
     ELSE cascadeEncryptFrom(0, data, SubSeq(layers, 1, failAt), keys,
                             nonceOf, -1)

cascadeEncrypt(data, layers, keys, nonceOf, failAt) ==
  cascadeEncryptFrom(0, data, layers, keys, nonceOf, failAt)

\* Draws named by pool and role alone: every call for a pool takes the draws
\* of the call before it.
NoncesPerPool(pool, slot, role) ==
  [i \in 1 .. MAX_LAYERS + 2 |-> Draw(pool, 0, role, i - 1)]

\* The draws of one cascade seal made for slot `slot` of pool `pool`.
Nonces(pool, slot, role) ==
  [i \in 1 .. MAX_LAYERS + 2 |-> Draw(pool, slot, role, i - 1)]

\* cascadeDecrypt(data, layers, layerKeys): layers L-1 .. 0.  opens lists the
\* layer indices whose suite.decrypt was invoked, in the order of the calls.
OpenThrown(msg, opens) ==
  [ok |-> FALSE, val |-> Zero(0), err |-> msg, opens |-> opens]

\* A loop that goes on to the inner layers after an open has failed, and
\* throws the first error at its end.
RECURSIVE cascadeDecryptOnFrom(_, _, _, _, _, _)
cascadeDecryptOnFrom(i, current, layers, keys, opens, failAt) ==
  IF i < 0 THEN [ok |-> TRUE, val |-> current, err |-> "", opens |-> opens]
  ELSE IF getSuiteThrows(layers[i + 1])
    THEN OpenThrown("Unknown algorithm", opens)
  ELSE IF i + 1 > Len(keys) THEN OpenThrown("TypeError", opens)
  ELSE LET r == suiteDecrypt(layers[i + 1], current, keys[i + 1], failAt = i)
           rest == cascadeDecryptOnFrom(i - 1, IF r.ok THEN r.val ELSE current,
                                        layers, keys, Append(opens, i), failAt)
       IN IF r.ok THEN rest ELSE OpenThrown(r.err, rest.opens)

RECURSIVE cascadeDecryptFrom(_, _, _, _, _, _)
cascadeDecryptFrom(i, current, layers, keys, opens, failAt) ==
  IF i < 0 THEN [ok |-> TRUE, val |-> current, err |-> "", opens |-> opens]
  ELSE IF getSuiteThrows(layers[i + 1])
    THEN OpenThrown("Unknown algorithm", opens)
  ELSE IF i + 1 > Len(keys) THEN OpenThrown("TypeError", opens)
  ELSE LET r == suiteDecrypt(layers[i + 1], current, keys[i + 1], failAt = i)
       IN IF ~r.ok THEN OpenThrown(r.err, Append(opens, i))
          ELSE cascadeDecryptFrom(i - 1, r.val, layers, keys,
                                  Append(opens, i), failAt)

\* A cascade open that swallows the error of a failing layer and returns.
cascadeDecryptSwallow(data, layers, keys, failAt) ==
  LET r == cascadeDecryptFrom(Len(layers) - 1, data, layers, keys, <<>>,
                              failAt)
  IN [r EXCEPT !.ok = TRUE, !.err = ""]

\* A loop that starts one layer too low and leaves the outermost layer sealed.
cascadeDecryptSkipOuter(data, layers, keys, failAt) ==
  cascadeDecryptFrom(Len(layers) - 2, data, layers, keys, <<>>, failAt)

cascadeDecrypt(data, layers, keys, failAt) ==
  cascadeDecryptFrom(Len(layers) - 1, data, layers, keys, <<>>, failAt)

\* ---------------------------------------------------------------------
\* State
\* ---------------------------------------------------------------------
VARIABLES
  config,   \* the caller's config.layers array
  inst,     \* "none" until cascade(config) has returned an instance
  validated,\* the layer list the last successful cascade(config) validated
  mem,      \* the heap of layer-key buffers: mem[b] is the content of b
  pks,      \* PasswordKey objects the caller holds
  mks,      \* MasterKey objects the caller holds
  emks,     \* encryptedMasterKey blobs the caller holds
  eds,      \* EncryptedData values the caller holds
  pkSrc,    \* history: the parameters each PasswordKey was derived from
  mkSrc,    \* history: the raw master material behind each MasterKey
  emkSrc,   \* history: how each encryptedMasterKey was produced
  edSrc,    \* history: plaintext, master key and content material of each item
  ret,      \* outcome of the last call
  sodium,   \* the libsodium module: the cached promise and its callers
  task      \* an encrypt call suspended at an await of its key cascade

vars == <<config, inst, validated, mem, pks, mks, emks, eds,
          pkSrc, mkSrc, emkSrc, edSrc, ret, sodium, task>>

\* `const { layers } = config`: the instance's layer list is the caller's
\* array object itself, not a copy of it.
layers == config

Passwords == {1, 2}
Salts == {1}
\* PasswordKeyParams a caller passes: password, salt and the Argon2id cost.
PasswordKeyParams ==
  [password : Passwords, salt : Salts,
   opsLimit : {ARGON2_OPSLIMIT_INTERACTIVE},
   memLimit : {ARGON2_MEMLIMIT_INTERACTIVE}]
Plaintexts == {<<"data", <<>> >>, <<"data", <<7>> >>}

Regions == {"nonce", "body", "tag"}
NoTamper == <<"none", "none">>
Tampers ==
  {NoTamper} \cup ({"encryptedContentKey", "ciphertext"} \X Regions)

\* A copy of a frame with one position modified, in the nonce, in the
\* ciphertext body or in the tag.
Modify(blob, region) ==
  IF blob[1] = "blob" THEN [blob EXCEPT ![6] = region] ELSE blob

Tampered(ed, tamper) ==
  IF tamper = NoTamper THEN ed
  ELSE IF tamper[1] = "encryptedContentKey"
    THEN [ed EXCEPT !.encryptedContentKey = Modify(@, tamper[2])]
  ELSE [ed EXCEPT !.ciphertext = Modify(@, tamper[2])]

\* The step of a call that the host refuses, and the layer index at which.
NoStep == <<"none", 0>>
Faults(steps) == {NoStep} \cup (steps \X (0 .. Len(config) - 1))
\* The layer index at which `step` is refused; -1 when no layer is.
FailAt(fault, step) == IF fault[1] = step THEN fault[2] ELSE -1

NoRet ==
  [op |-> "none", ok |-> TRUE, err |-> "", cfg |-> <<>>,
   pk |-> 0, pk2 |-> 0, mk |-> 0, emk |-> 0, ed |-> 0, out |-> 0,
   val |-> Zero(0), roots |-> <<>>, keys |-> <<>>, opens |-> <<>>,
   tamper |-> NoTamper, fault |-> NoStep, arg |-> <<>>]

\* No call is suspended.
NoTask ==
  [op |-> "none", mk |-> 0, data |-> Zero(0), raw |-> Zero(0), i |-> 0,
   current |-> Zero(0), keys |-> <<>>]

\* ---------------------------------------------------------------------
\* The libsodium module: `let _ready` and getSodium()
\* ---------------------------------------------------------------------
\* ready: the promise `_ready` holds, 0 for null; the promise made by the
\* k-th call of _sodium.ready.then is k.  started: the calls of
\* _sodium.ready.then so far.  loaded: _sodium.ready has resolved.
\* callers: where each concurrent caller of getSodium() is, and the promise
\* it was given.
Callers == 1 .. MaxCallers

NoSodium ==
  [ready |-> 0, started |-> 0, loaded |-> FALSE,
   callers |-> [c \in Callers |-> [pc |-> "idle", promise |-> 0]]]

\* A getSodium that makes a new promise on every call.
getSodiumUncached(s) ==
  [s EXCEPT !.ready = s.started + 1, !.started = s.started + 1]

\* getSodium(): if (!_ready) _ready = _sodium.ready.then(() => _sodium).
getSodium(s) ==
  IF s.ready = 0
    THEN [s EXCEPT !.ready = s.started + 1, !.started = s.started + 1]
    ELSE s

\* `await getSodium()` inside an operation: the operation goes on when the
\* module has loaded.
Awaited(s) == [getSodium(s) EXCEPT !.loaded = TRUE]

\* The bytes of a key object's layer keys, as the cascades read them.
KeyBytes(keyObject) ==
  [i \in 1 .. Len(keyObject.layerKeys) |-> mem[keyObject.layerKeys[i].key]]

\* One buffer per pool and layer index, handed to every key object.
BufferPerPool(pool, slot, i) == <<pool, 0, i>>

\* The address of the buffer kdf returned for layer index i - 1 of the key
\* object in slot `slot` of pool `pool`: every kdf call returns a new buffer.
Buffer(pool, slot, i) == <<pool, slot, i>>

\* A key object of freshly allocated buffers holding the derived keys.
Allocated(pool, slot, derived) ==
  [i \in 1 .. Len(derived) |->
     [algorithm |-> derived[i].algorithm, key |-> Buffer(pool, slot, i)]]

Contents(derived) == [i \in 1 .. Len(derived) |-> derived[i].key]

\* The heap after the buffers of a new key object have been allocated.
Stored(pool, slot, derived) ==
  [b \in DOMAIN mem \cup {Buffer(pool, slot, i) : i \in 1 .. Len(derived)} |->
     IF b \in DOMAIN mem THEN mem[b] ELSE derived[b[3]].key]

\* A wipe placed after the work instead of in a finally block: a throw skips it.
wipeOnSuccess(buffer, completed) ==
  IF completed THEN secureWipe(buffer) ELSE buffer

\* try { ... } finally { await secureWipe(buffer) }: the buffer's content
\* when the call is left, normally or by a throw.
finallyWipe(buffer, completed) == secureWipe(buffer)

ValidLayers(l) ==
  /\ Len(l) >= 1
  /\ Len(l) <= MAX_LAYERS
  /\ \A i \in 1 .. Len(l) : l[i] \in Registered

LayerLists(n) == UNION {[1 .. k -> Registered] : k \in 1 .. n}

Init ==
  /\ config \in LayerLists(MaxL)
  /\ inst = "made"
  /\ validated = config
  /\ mem = <<>>
  /\ pks = <<>> /\ mks = <<>> /\ emks = <<>> /\ eds = <<>>
  /\ pkSrc = <<>> /\ mkSrc = <<>> /\ emkSrc = <<>> /\ edSrc = <<>>
  /\ ret = NoRet
  /\ sodium = NoSodium
  /\ task = NoTask

\* ---------------------------------------------------------------------
\* Public API of an instance
\* ---------------------------------------------------------------------
\* derivePasswordKey(params).  keep: the caller retains the returned key.
DerivePasswordKey(params, fault, keep) ==
  /\ inst = "made"
  /\ ret.op = "none"
  /\ LET refused == argon2Throws(params.opsLimit, params.memLimit)
         key == argon2(params.password, params.salt, params.opsLimit,
                       params.memLimit)
         d == IF refused
                THEN [ok |-> FALSE, keys |-> <<>>, err |-> "Argon2"]
                ELSE deriveLayerKeys(key, layers, KDF_CONTEXT_PASSWORD,
                                     FailAt(fault, "kdf"))
         stored == d.ok /\ keep
     IN /\ ret' = [NoRet EXCEPT !.op = "derivePasswordKey", !.ok = d.ok,
                     !.err = d.err, !.cfg = layers, !.fault = fault,
                     !.out = IF stored THEN Len(pks) + 1 ELSE 0,
                     !.roots = IF refused THEN <<>>
                               ELSE <<finallyWipe(key, d.ok)>>]
        /\ IF stored
             THEN /\ pks' = Append(pks, [salt |-> params.salt,
                                         opsLimit |-> params.opsLimit,
                                         memLimit |-> params.memLimit,
                                         layerKeys |->
                                           Allocated("pk", Len(pks) + 1,
                                                     d.keys)])
                  /\ pkSrc' = Append(pkSrc, params)
                  /\ mem' = Stored("pk", Len(pks) + 1, d.keys)
             ELSE UNCHANGED <<pks, pkSrc, mem>>
  /\ UNCHANGED <<config, inst, validated, mks, emks, eds,
                 mkSrc, emkSrc, edSrc>>
  /\ sodium' = Awaited(sodium)
  /\ UNCHANGED task

\* generateMasterKey(passwordKey)
GenerateMasterKey(p, fault) ==
  /\ inst = "made"
  /\ ret.op = "none"
  /\ p \in 1 .. Len(pks)
  /\ LET rawMaster == randombytes_buf(Draw("mk", Len(mks) + 1, "raw", 0),
                                      RAW_KEY_MATERIAL_LENGTH)
         d == deriveLayerKeys(rawMaster, layers, KDF_CONTEXT_MASTER,
                              FailAt(fault, "kdf"))
         e == IF d.ok
                THEN cascadeEncrypt(rawMaster, layers, KeyBytes(pks[p]),
                                    Nonces("emk", Len(emks) + 1, "seal"),
                                    FailAt(fault, "seal"))
                ELSE Thrown(d.err)
         wiped == finallyWipe(rawMaster, e.ok)
         \* with no layer the cascade returns the rawMaster buffer itself
         encryptedMasterKey == IF Len(layers) = 0 THEN wiped ELSE e.val
     IN /\ ret' = [NoRet EXCEPT !.op = "generateMasterKey", !.ok = e.ok,
                     !.err = e.err, !.cfg = layers, !.fault = fault, !.pk = p,
                     !.out = IF e.ok THEN Len(mks) + 1 ELSE 0,
                     !.roots = <<wiped>>]
        /\ IF e.ok
             THEN /\ mks' = Append(mks,
                       [layerKeys |-> Allocated("mk", Len(mks) + 1, d.keys)])
                  /\ mkSrc' = Append(mkSrc,
                       [via |-> "generateMasterKey", raw |-> rawMaster,
                        emk |-> Len(emks) + 1, by |-> pkSrc[p]])
                  /\ mem' = Stored("mk", Len(mks) + 1, d.keys)
                  /\ emks' = Append(emks, encryptedMasterKey)
                  /\ emkSrc' = Append(emkSrc,
                       [via |-> "generateMasterKey", raw |-> rawMaster,
                        by |-> pkSrc[p], old |-> pkSrc[p], chain |-> 0,
                        root |-> Len(emks) + 1])
             ELSE UNCHANGED <<mks, mkSrc, mem, emks, emkSrc>>
  /\ UNCHANGED <<config, inst, validated, pks, eds, pkSrc, edSrc>>
  /\ sodium' = Awaited(sodium)
  /\ UNCHANGED task

\* The suite.decrypt calls of one cascade, labelled with the field it opens.
Labelled(field, opens) == [i \in 1 .. Len(opens) |-> <<field, opens[i]>>]

\* unlockMasterKey(encryptedMasterKey, passwordKey)
UnlockMasterKey(e, p, fault) ==
  /\ inst = "made"
  /\ ret.op = "none"
  /\ e \in 1 .. Len(emks) /\ p \in 1 .. Len(pks)
  /\ LET k == cascadeDecrypt(emks[e], layers, KeyBytes(pks[p]),
                             FailAt(fault, "open"))
         rawMaster == k.val
         d == IF k.ok
                THEN deriveLayerKeys(rawMaster, layers, KDF_CONTEXT_MASTER,
                                     FailAt(fault, "kdf"))
                ELSE [ok |-> FALSE, keys |-> <<>>, err |-> k.err]
         wiped == finallyWipe(rawMaster, d.ok)
     IN /\ ret' = [NoRet EXCEPT !.op = "unlockMasterKey", !.ok = d.ok,
                     !.err = d.err, !.cfg = layers, !.fault = fault,
                     !.pk = p, !.emk = e,
                     !.out = IF d.ok THEN Len(mks) + 1 ELSE 0,
                     !.roots = IF k.ok THEN <<wiped>> ELSE <<>>,
                     !.opens = Labelled("encryptedMasterKey", k.opens)]
        /\ IF d.ok
             THEN /\ mks' = Append(mks,
                       [layerKeys |-> Allocated("mk", Len(mks) + 1, d.keys)])
                  /\ mkSrc' = Append(mkSrc,
                       [via |-> "unlockMasterKey", raw |-> rawMaster,
                        emk |-> e, by |-> pkSrc[p]])
                  /\ mem' = Stored("mk", Len(mks) + 1, d.keys)
             ELSE UNCHANGED <<mks, mkSrc, mem>>
        \* with no layer rawMaster is the caller's blob itself
        /\ emks' = IF k.ok /\ Len(layers) = 0
                     THEN [emks EXCEPT ![e] = wiped] ELSE emks
  /\ UNCHANGED <<config, inst, validated, pks, eds, pkSrc, emkSrc, edSrc>>
  /\ sodium' = Awaited(sodium)
  /\ UNCHANGED task

\* encrypt(data, masterKey)
Encrypt(data, m, fault) ==
  /\ inst = "made"
  /\ ret.op = "none"
  /\ m \in 1 .. Len(mks)
  /\ LET rawContent == randombytes_buf(Draw("ed", Len(eds) + 1, "raw", 0),
                                       RAW_KEY_MATERIAL_LENGTH)
         d == deriveLayerKeys(rawContent, layers, KDF_CONTEXT_CONTENT,
                              FailAt(fault, "kdf"))
         w == IF d.ok
                THEN cascadeEncrypt(rawContent, layers, KeyBytes(mks[m]),
                                    Nonces("ed", Len(eds) + 1, "key"),
                                    FailAt(fault, "seal"))
                ELSE Thrown(d.err)
         c == IF w.ok
                THEN cascadeEncrypt(data, layers, Contents(d.keys),
                                    Nonces("ed", Len(eds) + 1, "data"),
                                    FailAt(fault, "seal2"))
                ELSE w
         wiped == finallyWipe(rawContent, c.ok)
     IN /\ ret' = [NoRet EXCEPT !.op = "encrypt", !.ok = c.ok, !.err = c.err,
                     !.cfg = layers, !.fault = fault, !.mk = m,
                     !.out = IF c.ok THEN Len(eds) + 1 ELSE 0,
                     !.roots = <<wiped>>, !.keys = Contents(d.keys)]
        /\ IF c.ok
             THEN /\ eds' = Append(eds,
                       [encryptedContentKey |->
                          IF Len(layers) = 0 THEN wiped ELSE w.val,
                        ciphertext |-> c.val])
                  /\ edSrc' = Append(edSrc,
                       [plaintext |-> data, mk |-> m, raw |-> rawContent])
             ELSE UNCHANGED <<eds, edSrc>>
  /\ UNCHANGED <<config, inst, validated, mem, pks, mks, emks,
                 pkSrc, mkSrc, emkSrc>>
  /\ sodium' = Awaited(sodium)
  /\ UNCHANGED task

\* decrypt(encryptedData, masterKey) on item d, or on a modified copy of it.
Decrypt(d, m, tamper, fault) ==
  /\ inst = "made"
  /\ ret.op = "none"
  /\ d \in 1 .. Len(eds) /\ m \in 1 .. Len(mks)
  /\ LET encryptedData == Tampered(eds[d], tamper)
         k == cascadeDecrypt(encryptedData.encryptedContentKey, layers,
                             KeyBytes(mks[m]), FailAt(fault, "open"))
         rawContent == k.val
         dk == IF k.ok
                 THEN deriveLayerKeys(rawContent, layers, KDF_CONTEXT_CONTENT,
                                      FailAt(fault, "kdf"))
                 ELSE [ok |-> FALSE, keys |-> <<>>, err |-> k.err]
         c == IF dk.ok
                THEN cascadeDecrypt(encryptedData.ciphertext, layers,
                                    Contents(dk.keys), FailAt(fault, "open2"))
                ELSE OpenThrown(dk.err, <<>>)
     IN /\ ret' = [NoRet EXCEPT !.op = "decrypt", !.ok = c.ok, !.err = c.err,
                     !.cfg = layers, !.fault = fault, !.tamper = tamper,
                     !.mk = m, !.ed = d, !.val = c.val,
                     !.roots = IF k.ok THEN <<finallyWipe(rawContent, c.ok)>>
                               ELSE <<>>,
                     !.keys = Contents(dk.keys),
                     !.opens = Labelled("encryptedContentKey", k.opens)
                               \o Labelled("ciphertext", c.opens)]
        \* with no layer rawContent is the caller's wrapped key itself
        /\ eds' = IF k.ok /\ Len(layers) = 0 /\ tamper = NoTamper
                    THEN [eds EXCEPT ![d].encryptedContentKey =
                            finallyWipe(rawContent, c.ok)]
                    ELSE eds
  /\ UNCHANGED <<config, inst, validated, mem, pks, mks, emks,
                 pkSrc, mkSrc, emkSrc, edSrc>>
  /\ sodium' = Awaited(sodium)
  /\ UNCHANGED task

\* A changePassword that seals the recovered material under the old password
\* key's layer keys.
rewrapUnderOld(rawMaster, oldKeys, newKeys, nonceOf, failAt) ==
  cascadeEncrypt(rawMaster, layers, oldKeys, nonceOf, failAt)

\* A changePassword that wipes the recovered material before it seals it.
rewrapWiped(rawMaster, oldKeys, newKeys, nonceOf, failAt) ==
  cascadeEncrypt(secureWipe(rawMaster), layers, newKeys, nonceOf, failAt)

\* A changePassword that rotates the master material: it seals fresh bytes.
rewrapRotated(rawMaster, oldKeys, newKeys, nonceOf, failAt) ==
  cascadeEncrypt(randombytes_buf(Draw("emk", Len(emks) + 1, "raw", 0),
                                 RAW_KEY_MATERIAL_LENGTH),
                 layers, newKeys, nonceOf, failAt)

\* changePassword's re-encryption: the material recovered with the old
\* password key's layer keys is sealed under the new password key's.
rewrap(rawMaster, oldKeys, newKeys, nonceOf, failAt) ==
  cascadeEncrypt(rawMaster, layers, newKeys, nonceOf, failAt)

\* changePassword(encryptedMasterKey, oldPasswordKey, newPasswordKey)
ChangePassword(e, pOld, pNew, fault) ==
  /\ inst = "made"
  /\ ret.op = "none"
  /\ e \in 1 .. Len(emks) /\ pOld \in 1 .. Len(pks) /\ pNew \in 1 .. Len(pks)
  /\ LET k == cascadeDecrypt(emks[e], layers, KeyBytes(pks[pOld]),
                             FailAt(fault, "open"))
         rawMaster == k.val
         s == IF k.ok
                THEN rewrap(rawMaster, KeyBytes(pks[pOld]),
                            KeyBytes(pks[pNew]),
                            Nonces("emk", Len(emks) + 1, "seal"),
                            FailAt(fault, "seal"))
                ELSE Thrown(k.err)
         wiped == finallyWipe(rawMaster, s.ok)
     IN /\ ret' = [NoRet EXCEPT !.op = "changePassword", !.ok = s.ok,
                     !.err = s.err, !.cfg = layers, !.fault = fault,
                     !.emk = e, !.pk = pOld, !.pk2 = pNew,
                     !.out = IF s.ok THEN Len(emks) + 1 ELSE 0,
                     !.roots = IF k.ok THEN <<wiped>> ELSE <<>>,
                     !.opens = Labelled("encryptedMasterKey", k.opens)]
        /\ IF s.ok
             \* with no layer rawMaster and the result are the caller's blob
             THEN /\ emks' = IF Len(layers) = 0
                               THEN Append([emks EXCEPT ![e] = wiped], wiped)
                               ELSE Append(emks, s.val)
                  /\ emkSrc' = Append(emkSrc,
                       [via |-> "changePassword", raw |-> rawMaster,
                        by |-> pkSrc[pNew], old |-> pkSrc[pOld],
                        chain |-> emkSrc[e].chain + 1,
                        root |-> emkSrc[e].root])
             ELSE UNCHANGED <<emks, emkSrc>>
  /\ UNCHANGED <<config, inst, validated, mem, pks, mks, eds,
                 pkSrc, mkSrc, edSrc>>
  /\ sodium' = Awaited(sodium)
  /\ UNCHANGED task

\* ---------------------------------------------------------------------
\* The factory, and the caller's config.layers array
\* ---------------------------------------------------------------------
\* A length check that lets one layer too many through.
tooManyLayersOffByOne(l) == Len(l) > MAX_LAYERS + 1

\* layers.length > MAX_LAYERS
tooManyLayers(l) == Len(l) > MAX_LAYERS

\* The message of the error cascade(config) throws, without the "(got n)"
\* that follows the second one; "" when it throws none.
cascadeThrows(l) ==
  IF Len(l) = 0 THEN "Cascade requires at least one layer"
  ELSE IF tooManyLayers(l) THEN "Cascade supports at most 10 layers"
  ELSE IF \E i \in 1 .. Len(l) : getSuiteThrows(l[i]) THEN "Unknown algorithm"
  ELSE ""

\* cascade(config): validate config.layers, return the instance.
Cascade ==
  /\ inst = "none"
  /\ ret.op = "none"
  /\ LET err == cascadeThrows(layers)
     IN /\ ret' = [NoRet EXCEPT !.op = "cascade", !.ok = (err = ""),
                     !.err = err, !.cfg = layers]
        /\ inst' = IF err = "" THEN "made" ELSE inst
        /\ validated' = IF err = "" THEN layers ELSE validated
  /\ UNCHANGED <<config, mem, pks, mks, emks, eds,
                 pkSrc, mkSrc, emkSrc, edSrc>>
  /\ UNCHANGED sodium
  /\ UNCHANGED task

\* config.layers.push(a)
Push(a) ==
  /\ ret.op = "none"
  /\ config' = Append(config, a)
  /\ UNCHANGED <<inst, validated, mem, pks, mks, emks, eds,
                 pkSrc, mkSrc, emkSrc, edSrc, ret>>
  /\ UNCHANGED sodium
  /\ UNCHANGED task

\* config.layers.pop()
Pop ==
  /\ ret.op = "none"
  /\ Len(config) > 0
  /\ config' = SubSeq(config, 1, Len(config) - 1)
  /\ UNCHANGED <<inst, validated, mem, pks, mks, emks, eds,
                 pkSrc, mkSrc, emkSrc, edSrc, ret>>
  /\ UNCHANGED sodium
  /\ UNCHANGED task

\* config.layers[i - 1] = a
Replace(i, a) ==
  /\ ret.op = "none"
  /\ i \in 1 .. Len(config)
  /\ config[i] # a
  /\ config' = [config EXCEPT ![i] = a]
  /\ UNCHANGED <<inst, validated, mem, pks, mks, emks, eds,
                 pkSrc, mkSrc, emkSrc, edSrc, ret>>
  /\ UNCHANGED sodium
  /\ UNCHANGED task

\* The caller's await completes: it takes the outcome of its call, and is
\* free to make the next call.
Return ==
  /\ ret.op # "none"
  /\ ret' = NoRet
  /\ UNCHANGED <<config, inst, validated, mem, pks, mks, emks, eds,
                 pkSrc, mkSrc, emkSrc, edSrc>>
  /\ UNCHANGED sodium
  /\ UNCHANGED task

\* ---------------------------------------------------------------------
\* Key lifecycle: a caller that derives, generates, unlocks, encrypts,
\* decrypts and changes the password on one instance
\* ---------------------------------------------------------------------
\* The caller holds at most MaxPK password keys, MaxMK master keys, MaxEMK
\* encrypted master keys and MaxED encrypted items.
RoomPK == Len(pks) < MaxPK
\* The caller numbers its passwords in the order of their first use.
Used == {pkSrc[i].password : i \in 1 .. Len(pkSrc)}
NextPasswords == {w \in Passwords : \A v \in Passwords : v < w => v \in Used}
NextParams == {params \in PasswordKeyParams : params.password \in NextPasswords}
RoomMK == Len(mks) < MaxMK
RoomEMK == Len(emks) < MaxEMK
RoomED == Len(eds) < MaxED

Next ==
  \/ \E params \in NextParams :
       RoomPK /\ DerivePasswordKey(params, NoStep, TRUE)
  \/ \E p \in 1 .. Len(pks) :
       RoomMK /\ RoomEMK /\ GenerateMasterKey(p, NoStep)
  \/ \E e \in 1 .. Len(emks), p \in 1 .. Len(pks) :
       RoomMK /\ UnlockMasterKey(e, p, NoStep)
  \/ \E data \in Plaintexts, m \in 1 .. Len(mks) :
       RoomED /\ Encrypt(data, m, NoStep)
  \/ \E d \in 1 .. Len(eds), m \in 1 .. Len(mks) :
       Decrypt(d, m, NoTamper, NoStep)
  \/ \E e \in 1 .. Len(emks), pOld \in 1 .. Len(pks), pNew \in 1 .. Len(pks) :
       RoomEMK /\ ChangePassword(e, pOld, pNew, NoStep)
  \/ Return

Spec == Init /\ [][Next]_vars

\* ---------------------------------------------------------------------
\* Modified items: decrypt of a copy with one position changed
\* ---------------------------------------------------------------------
NextTamper ==
  \/ \E params \in NextParams :
       RoomPK /\ DerivePasswordKey(params, NoStep, TRUE)
  \/ \E p \in 1 .. Len(pks) :
       RoomMK /\ RoomEMK /\ GenerateMasterKey(p, NoStep)
  \/ \E data \in Plaintexts, m \in 1 .. Len(mks) :
       RoomED /\ Encrypt(data, m, NoStep)
  \/ \E d \in 1 .. Len(eds), m \in 1 .. Len(mks), tamper \in Tampers :
       Decrypt(d, m, tamper, NoStep)
  \/ Return

SpecTamper == Init /\ [][NextTamper]_vars

\* ---------------------------------------------------------------------
\* Repeated encryption under one master key
\* ---------------------------------------------------------------------
NextTwice ==
  \/ \E params \in NextParams :
       RoomPK /\ DerivePasswordKey(params, NoStep, TRUE)
  \/ \E p \in 1 .. Len(pks) :
       RoomMK /\ RoomEMK /\ GenerateMasterKey(p, NoStep)
  \/ \E data \in Plaintexts, m \in 1 .. Len(mks) :
       Len(eds) < MaxTwice /\ Encrypt(data, m, NoStep)
  \/ Return

SpecTwice == Init /\ [][NextTwice]_vars

\* ---------------------------------------------------------------------
\* Failing steps: the host refuses one kdf, seal or open call
\* ---------------------------------------------------------------------
NextFault ==
  \/ \E params \in NextParams, fault \in Faults({"kdf"}) :
       Len(pks) < MaxFaultKeys /\ DerivePasswordKey(params, fault, TRUE)
  \/ \E p \in 1 .. Len(pks), fault \in Faults({"kdf", "seal"}) :
       Len(mks) < MaxFaultKeys /\ RoomEMK /\ GenerateMasterKey(p, fault)
  \/ \E e \in 1 .. Len(emks), p \in 1 .. Len(pks),
        fault \in Faults({"open", "kdf"}) :
       RoomMK /\ UnlockMasterKey(e, p, fault)
  \/ \E data \in Plaintexts, m \in 1 .. Len(mks),
        fault \in Faults({"kdf", "seal", "seal2"}) :
       RoomED /\ Encrypt(data, m, fault)
  \/ \E d \in 1 .. Len(eds), m \in 1 .. Len(mks),
        fault \in Faults({"open", "kdf", "open2"}) :
       Decrypt(d, m, NoTamper, fault)
  \/ \E e \in 1 .. Len(emks), pOld \in 1 .. Len(pks), pNew \in 1 .. Len(pks),
        fault \in Faults({"open", "seal"}) :
       RoomEMK /\ ChangePassword(e, pOld, pNew, fault)
  \/ Return

SpecFault == Init /\ [][NextFault]_vars

\* ---------------------------------------------------------------------
\* Construction: a caller that builds config.layers, constructs the
\* instance, keeps changing the array and calls the instance
\* ---------------------------------------------------------------------
InitCfg ==
  /\ config = <<>>
  /\ inst = "none"
  /\ validated = <<>>
  /\ mem = <<>>
  /\ pks = <<>> /\ mks = <<>> /\ emks = <<>> /\ eds = <<>>
  /\ pkSrc = <<>> /\ mkSrc = <<>> /\ emkSrc = <<>> /\ edSrc = <<>>
  /\ ret = NoRet
  /\ sodium = NoSodium
  /\ task = NoTask

Others(l) == Cardinality({i \in 1 .. Len(l) : l[i] # AES_256_GCM})

NextCfg ==
  \/ \E a \in Algorithm :
       /\ Len(config) < MaxCfg
       /\ Others(Append(config, a)) <= MaxOther
       /\ Push(a)
  \/ Pop
  \/ \E i \in 1 .. Len(config), a \in Algorithm :
       /\ Others([config EXCEPT ![i] = a]) <= MaxOther
       /\ Replace(i, a)
  \/ Cascade
  \/ \E params \in PasswordKeyParams :
       DerivePasswordKey(params, NoStep, FALSE)
  \/ Return

SpecCfg == InitCfg /\ [][NextCfg]_vars

\* ---------------------------------------------------------------------
\* The cascades as functions: a blob sealed under the layer keys of one
\* root material, opened with a key list that differs in one layer
\* ---------------------------------------------------------------------
Roots ==
  {randombytes_buf(Draw("root", r, "raw", 0), RAW_KEY_MATERIAL_LENGTH) :
     r \in 1 .. 2}

Contexts == {KDF_CONTEXT_PASSWORD, KDF_CONTEXT_MASTER, KDF_CONTEXT_CONTENT}

\* layerKeys with the entry of layer index j taken from `other`.
WithKey(keys, other, j) ==
  [i \in 1 .. Len(keys) |-> IF i = j + 1 THEN other[i] ELSE keys[i]]

\* cascadeDecrypt(cascadeEncrypt(data, layers, keys), layers, keys'), where
\* keys are the layer keys of `root` and keys' differ from them at layer
\* index j (at none when j = -1).
OpenCascade(data, root, other, context, j) ==
  /\ inst = "made"
  /\ root # other
  /\ j \in -1 .. Len(layers) - 1
  /\ LET keys == Contents(deriveLayerKeys(root, layers, context, -1).keys)
         others == Contents(deriveLayerKeys(other, layers, context, -1).keys)
         sealed == cascadeEncrypt(data, layers, keys,
                                  Nonces("blob", 1, "seal"), -1)
         r == cascadeDecrypt(sealed.val, layers, WithKey(keys, others, j), -1)
     IN ret' = [NoRet EXCEPT !.op = "cascadeDecrypt", !.ok = r.ok,
                  !.err = r.err, !.cfg = layers, !.val = r.val,
                  !.keys = keys, !.opens = Labelled("blob", r.opens),
                  !.arg = <<data, sealed.val, j, root, context>>]
  /\ UNCHANGED <<config, inst, validated, mem, pks, mks, emks, eds,
                 pkSrc, mkSrc, emkSrc, edSrc>>
  /\ sodium' = Awaited(sodium)
  /\ UNCHANGED task

NextLayer ==
  \E data \in Plaintexts, root \in Roots, other \in Roots,
     context \in Contexts, j \in -1 .. MaxL :
    OpenCascade(data, root, other, context, j)

SpecLayer == Init /\ [][NextLayer]_vars

\* ---------------------------------------------------------------------
\* Lengths: the blobs the instance returns, and a frame sealed by the
\* AES-256-CTR-HMAC suite of the Web Crypto build
\* ---------------------------------------------------------------------
\* The CryptoKey pair importKeys makes of 64 bytes of key material.
importKeys(material) == <<"keys", material, AES_KEY_LENGTH>>

\* aesCtrHmac.encrypt(data, keys) with the keys of 64 bytes derived from root.
SealCtrHmac(data, root) ==
  /\ ret.op = "none"
  /\ LET material == kdf(root, KDF_CONTEXT_CONTENT, 0, AES_KEY_LENGTH + MAC_LENGTH)
         sealed == aesCtrHmacEncrypt(data, importKeys(material),
                                     Draw("blob", 1, "seal", 0))
     IN ret' = [NoRet EXCEPT !.op = "aesCtrHmac.encrypt", !.val = sealed,
                  !.cfg = <<AES_256_CTR_HMAC>>, !.arg = <<data, sealed, 0>>]
  /\ UNCHANGED <<config, inst, validated, mem, pks, mks, emks, eds,
                 pkSrc, mkSrc, emkSrc, edSrc>>
  /\ UNCHANGED sodium
  /\ UNCHANGED task

NextLen ==
  \/ \E params \in NextParams :
       RoomPK /\ DerivePasswordKey(params, NoStep, TRUE)
  \/ \E p \in 1 .. Len(pks) :
       RoomMK /\ RoomEMK /\ GenerateMasterKey(p, NoStep)
  \/ \E data \in Plaintexts, m \in 1 .. Len(mks) :
       RoomED /\ Encrypt(data, m, NoStep)
  \/ \E e \in 1 .. Len(emks), pOld \in 1 .. Len(pks), pNew \in 1 .. Len(pks) :
       RoomEMK /\ ChangePassword(e, pOld, pNew, NoStep)
  \/ \E data \in Plaintexts, root \in Roots : SealCtrHmac(data, root)
  \/ Return

SpecLen == Init /\ [][NextLen]_vars

\* ---------------------------------------------------------------------
\* The operations of an instance whose caller shortens config.layers
\* ---------------------------------------------------------------------
NextShared ==
  \/ \E params \in NextParams :
       Len(pks) < MaxSharedPK /\ DerivePasswordKey(params, NoStep, TRUE)
  \/ \E p \in 1 .. Len(pks) :
       RoomMK /\ RoomEMK /\ GenerateMasterKey(p, NoStep)
  \/ \E e \in 1 .. Len(emks), p \in 1 .. Len(pks) :
       RoomMK /\ UnlockMasterKey(e, p, NoStep)
  \/ \E data \in Plaintexts, m \in 1 .. Len(mks) :
       RoomED /\ Encrypt(data, m, NoStep)
  \/ \E d \in 1 .. Len(eds), m \in 1 .. Len(mks) :
       Decrypt(d, m, NoTamper, NoStep)
  \/ \E e \in 1 .. Len(emks), pOld \in 1 .. Len(pks), pNew \in 1 .. Len(pks) :
       RoomEMK /\ ChangePassword(e, pOld, pNew, NoStep)
  \/ Pop
  \/ Return

SpecShared == Init /\ [][NextShared]_vars

\* ---------------------------------------------------------------------
\* Key lifecycle helpers: wipePasswordKey and wipeMasterKey
\* ---------------------------------------------------------------------
\* A wipe that stops after the first layer key.
wipeFirstLayerKey(keyObject) ==
  [b \in DOMAIN mem |->
     IF Len(keyObject.layerKeys) > 0 /\ b = keyObject.layerKeys[1].key
       THEN secureWipe(mem[b]) ELSE mem[b]]

\* for (const lk of key.layerKeys) await secureWipe(lk.key): the heap after it.
wipeLayerKeys(keyObject) ==
  [b \in DOMAIN mem |->
     IF \E i \in 1 .. Len(keyObject.layerKeys) : b = keyObject.layerKeys[i].key
       THEN secureWipe(mem[b]) ELSE mem[b]]

\* wipePasswordKey(passwordKey)
WipePasswordKey(p) ==
  /\ inst = "made"
  /\ ret.op = "none"
  /\ p \in 1 .. Len(pks)
  /\ mem' = wipeLayerKeys(pks[p])
  /\ ret' = [NoRet EXCEPT !.op = "wipePasswordKey", !.cfg = layers, !.pk = p,
               !.keys = KeyBytes(pks[p])]
  /\ UNCHANGED <<config, inst, validated, pks, mks, emks, eds,
                 pkSrc, mkSrc, emkSrc, edSrc>>
  /\ sodium' = Awaited(sodium)
  /\ UNCHANGED task

\* wipeMasterKey(masterKey)
WipeMasterKey(m) ==
  /\ inst = "made"
  /\ ret.op = "none"
  /\ m \in 1 .. Len(mks)
  /\ mem' = wipeLayerKeys(mks[m])
  /\ ret' = [NoRet EXCEPT !.op = "wipeMasterKey", !.cfg = layers, !.mk = m,
               !.keys = KeyBytes(mks[m])]
  /\ UNCHANGED <<config, inst, validated, pks, mks, emks, eds,
                 pkSrc, mkSrc, emkSrc, edSrc>>
  /\ sodium' = Awaited(sodium)
  /\ UNCHANGED task

NextWipe ==
  \/ \E params \in NextParams :
       RoomPK /\ DerivePasswordKey(params, NoStep, TRUE)
  \/ \E p \in 1 .. Len(pks) :
       RoomMK /\ RoomEMK /\ GenerateMasterKey(p, NoStep)
  \/ \E p \in 1 .. Len(pks) : WipePasswordKey(p)
  \/ \E m \in 1 .. Len(mks) : WipeMasterKey(m)
  \/ Return

SpecWipe == Init /\ [][NextWipe]_vars

\* ---------------------------------------------------------------------
\* Concurrent callers of getSodium()
\* ---------------------------------------------------------------------
\* Caller c calls getSodium() and awaits the promise it returns.
GetSodium(c) ==
  /\ sodium.callers[c].pc = "idle"
  /\ LET s == getSodium(sodium)
     IN sodium' = [s EXCEPT !.callers[c] =
                               [pc |-> "awaiting", promise |-> s.ready]]
  /\ UNCHANGED <<config, inst, validated, mem, pks, mks, emks, eds,
                 pkSrc, mkSrc, emkSrc, edSrc, ret>>
  /\ UNCHANGED task

\* The WASM module has loaded: _sodium.ready resolves.
Load ==
  /\ ~sodium.loaded
  /\ sodium' = [sodium EXCEPT !.loaded = TRUE]
  /\ UNCHANGED <<config, inst, validated, mem, pks, mks, emks, eds,
                 pkSrc, mkSrc, emkSrc, edSrc, ret>>
  /\ UNCHANGED task

\* The promise caller c awaits has resolved with the module: c goes on.
Resume(c) ==
  /\ sodium.callers[c].pc = "awaiting"
  /\ sodium.loaded
  /\ sodium' = [sodium EXCEPT !.callers[c].pc = "ready"]
  /\ UNCHANGED <<config, inst, validated, mem, pks, mks, emks, eds,
                 pkSrc, mkSrc, emkSrc, edSrc, ret>>
  /\ UNCHANGED task

\* Caller c has used the module and may call getSodium() again.
Again(c) ==
  /\ sodium.callers[c].pc = "ready"
  /\ sodium' = [sodium EXCEPT !.callers[c].pc = "idle"]
  /\ UNCHANGED <<config, inst, validated, mem, pks, mks, emks, eds,
                 pkSrc, mkSrc, emkSrc, edSrc, ret>>
  /\ UNCHANGED task

NextSodium ==
  \/ \E c \in Callers : GetSodium(c)
  \/ Load
  \/ \E c \in Callers : Resume(c)
  \/ \E c \in Callers : Again(c)

SpecSodium == Init /\ [][NextSodium]_vars

\* ---------------------------------------------------------------------
\* The suites of the registry called directly: keys and blobs of any length
\* ---------------------------------------------------------------------
\* Key arguments of 0, 16, 31, 32 and 33 bytes.
KeyLengths == {0, 16, 31, 32, 33}
SuiteKeys ==
  {kdf(randombytes_buf(Draw("root", 1, "raw", 0), RAW_KEY_MATERIAL_LENGTH),
       KDF_CONTEXT_CONTENT, 0, n) : n \in KeyLengths}

\* Blob arguments that are no sealed frame, around the suites' minimum lengths.
StrayLengths == {0, 27, 28, 39, 40}
Strays == {randombytes_buf(Draw("stray", 1, "blob", 0), n) : n \in StrayLengths}

\* suite.encrypt(data, key) of a registered suite.
SuiteSeal(alg, data, key, refused) ==
  /\ LET r == suiteEncrypt(alg, data, key, Draw("blob", 1, "seal", 0), refused)
     IN ret' = [NoRet EXCEPT !.op = "suite.encrypt", !.ok = r.ok,
                  !.err = r.err, !.val = r.val,
                  !.arg = <<alg, data, key, refused>>]
  /\ UNCHANGED <<config, inst, validated, mem, pks, mks, emks, eds,
                 pkSrc, mkSrc, emkSrc, edSrc>>
  /\ sodium' = IF alg = XCHACHA20_POLY1305 /\ validateKey(key)
                 THEN Awaited(sodium) ELSE sodium
  /\ UNCHANGED task

\* suite.decrypt(blob, key) of a registered suite, on a stray blob or on a
\* frame that suite.encrypt returned.
SuiteOpen(alg, blob, key, refused) ==
  /\ LET r == suiteDecrypt(alg, blob, key, refused)
     IN ret' = [NoRet EXCEPT !.op = "suite.decrypt", !.ok = r.ok,
                  !.err = r.err, !.val = r.val,
                  !.arg = <<alg, blob, key, refused>>]
  /\ UNCHANGED <<config, inst, validated, mem, pks, mks, emks, eds,
                 pkSrc, mkSrc, emkSrc, edSrc>>
  /\ sodium' = IF alg = XCHACHA20_POLY1305 /\ validateKey(key)
                 THEN Awaited(sodium) ELSE sodium
  /\ UNCHANGED task

NextSuite ==
  \/ \E alg \in Registered, data \in Plaintexts, key \in SuiteKeys,
        refused \in BOOLEAN :
       SuiteSeal(alg, data, key, refused)
  \/ \E alg \in Registered, blob \in Strays, key \in SuiteKeys,
        refused \in BOOLEAN :
       SuiteOpen(alg, blob, key, refused)
  \/ \E alg \in Registered, key \in SuiteKeys, refused \in BOOLEAN :
       /\ ret.op = "suite.encrypt" /\ ret.ok
       /\ SuiteOpen(alg, ret.val, key, refused)

SpecSuite == Init /\ [][NextSuite]_vars

\* ---------------------------------------------------------------------
\* aesCtrHmac.decrypt of the Web Crypto build
\* ---------------------------------------------------------------------
\* Where a received MAC that does not verify differs from the computed one:
\* in its first byte, in its last byte, or in two bytes in between.
Mismatches == {{0}, {MAC_LENGTH - 1}, {5, 20}}

\* Blobs of 47 and of 48 bytes that no seal made.
CtrStrays ==
  {randombytes_buf(Draw("stray", 1, "blob", 0), n) :
     n \in {COUNTER_LENGTH + MAC_LENGTH - 1, COUNTER_LENGTH + MAC_LENGTH}}

CtrKeys(root) ==
  importKeys(kdf(root, KDF_CONTEXT_CONTENT, 0, AES_KEY_LENGTH + MAC_LENGTH))

\* aesCtrHmac.decrypt(data, keys) with the keys derived from root.
OpenCtrHmac(data, root, diff) ==
  /\ diff = {} <=> (ByteLen(data) >= COUNTER_LENGTH + MAC_LENGTH
                      /\ MacMatches(data, CtrKeys(root)))
  /\ LET r == aesCtrHmacDecrypt(data, CtrKeys(root), diff)
     IN ret' = [NoRet EXCEPT !.op = "aesCtrHmac.decrypt", !.ok = r.ok,
                  !.err = r.err, !.val = r.val, !.out = r.visited,
                  !.opens = r.steps, !.cfg = <<AES_256_CTR_HMAC>>,
                  !.arg = <<data, diff, root>>]
  /\ UNCHANGED <<config, inst, validated, mem, pks, mks, emks, eds,
                 pkSrc, mkSrc, emkSrc, edSrc>>
  /\ UNCHANGED sodium
  /\ UNCHANGED task

NextMac ==
  \/ \E data \in Plaintexts, root \in Roots : SealCtrHmac(data, root)
  \/ \E region \in Regions \cup {"intact"}, root \in Roots,
        diff \in Mismatches \cup {{}} :
       /\ ret.op = "aesCtrHmac.encrypt"
       /\ OpenCtrHmac([ret.val EXCEPT ![6] = region], root, diff)
  \/ \E data \in CtrStrays, root \in Roots, diff \in Mismatches \cup {{}} :
       /\ ret.op = "none"
       /\ OpenCtrHmac(data, root, diff)
  \/ Return

SpecMac == Init /\ [][NextMac]_vars

\* ---------------------------------------------------------------------
\* A caller that wipes key objects and goes on using key objects
\* ---------------------------------------------------------------------
NextWipeUse ==
  \/ \E params \in NextParams :
       Len(pks) < MaxWipeKeys /\ DerivePasswordKey(params, NoStep, TRUE)
  \/ \E p \in 1 .. Len(pks) :
       Len(mks) < MaxWipeKeys /\ GenerateMasterKey(p, NoStep)
  \/ \E e \in 1 .. Len(emks), p \in 1 .. Len(pks) :
       RoomMK /\ UnlockMasterKey(e, p, NoStep)
  \/ \E data \in Plaintexts, m \in 1 .. Len(mks) :
       RoomED /\ Encrypt(data, m, NoStep)
  \/ \E d \in 1 .. Len(eds), m \in 1 .. Len(mks) :
       Decrypt(d, m, NoTamper, NoStep)
  \/ \E p \in 1 .. Len(pks) : WipePasswordKey(p)
  \/ \E m \in 1 .. Len(mks) : WipeMasterKey(m)
  \/ Return

SpecWipeUse == Init /\ [][NextWipeUse]_vars

\* ---------------------------------------------------------------------
\* encrypt suspended at the awaits of its master-key cascade, and
\* wipeMasterKey called meanwhile
\* ---------------------------------------------------------------------
\* encrypt(data, masterKey) up to the first suite.encrypt of
\* cascadeEncrypt(rawContent, layers, masterKey.layerKeys): the content
\* material is drawn and the content layer keys are derived.
BeginEncrypt(data, m) ==
  /\ inst = "made"
  /\ ret.op = "none"
  /\ task = NoTask
  /\ m \in 1 .. Len(mks)
  /\ LET rawContent == randombytes_buf(Draw("ed", Len(eds) + 1, "raw", 0),
                                       RAW_KEY_MATERIAL_LENGTH)
         d == deriveLayerKeys(rawContent, layers, KDF_CONTEXT_CONTENT, -1)
     IN task' = [op |-> "encrypt", mk |-> m, data |-> data,
                 raw |-> rawContent, i |-> 0, current |-> rawContent,
                 keys |-> Contents(d.keys)]
  /\ sodium' = Awaited(sodium)
  /\ UNCHANGED <<config, inst, validated, mem, pks, mks, emks, eds,
                 pkSrc, mkSrc, emkSrc, edSrc, ret>>

\* One turn of the loop of cascadeEncrypt: `await suite.encrypt(current,
\* layerKeys[i].key)` reads the bytes the key buffer holds now.
SealLayer ==
  /\ task.op = "encrypt"
  /\ ret.op = "none"
  /\ task.i < Len(layers)
  /\ LET key == mem[mks[task.mk].layerKeys[task.i + 1].key]
         r == suiteEncrypt(layers[task.i + 1], task.current, key,
                           Draw("ed", Len(eds) + 1, "key", task.i), FALSE)
     IN IF r.ok
          THEN /\ task' = [task EXCEPT !.i = task.i + 1, !.current = r.val]
               /\ UNCHANGED ret
          ELSE /\ task' = NoTask
               /\ ret' = [NoRet EXCEPT !.op = "encrypt", !.ok = FALSE,
                            !.err = r.err, !.cfg = layers, !.mk = task.mk,
                            !.roots = <<finallyWipe(task.raw, FALSE)>>,
                            !.keys = task.keys]
  /\ UNCHANGED <<config, inst, validated, mem, pks, mks, emks, eds,
                 pkSrc, mkSrc, emkSrc, edSrc, sodium>>

\* The rest of encrypt: the data is sealed under the content layer keys, the
\* content material is wiped, the EncryptedData is returned.
EndEncrypt ==
  /\ task.op = "encrypt"
  /\ ret.op = "none"
  /\ task.i >= Len(layers)
  /\ LET c == cascadeEncrypt(task.data, layers, task.keys,
                             Nonces("ed", Len(eds) + 1, "data"), -1)
         wiped == finallyWipe(task.raw, c.ok)
     IN /\ ret' = [NoRet EXCEPT !.op = "encrypt", !.ok = c.ok, !.err = c.err,
                     !.cfg = layers, !.mk = task.mk,
                     !.out = IF c.ok THEN Len(eds) + 1 ELSE 0,
                     !.roots = <<wiped>>, !.keys = task.keys]
        /\ IF c.ok
             THEN /\ eds' = Append(eds,
                       [encryptedContentKey |->
                          IF Len(layers) = 0 THEN wiped ELSE task.current,
                        ciphertext |-> c.val])
                  /\ edSrc' = Append(edSrc,
                       [plaintext |-> task.data, mk |-> task.mk,
                        raw |-> task.raw])
             ELSE UNCHANGED <<eds, edSrc>>
  /\ task' = NoTask
  /\ UNCHANGED <<config, inst, validated, mem, pks, mks, emks,
                 pkSrc, mkSrc, emkSrc, sodium>>

NextAwait ==
  \/ \E params \in NextParams :
       /\ Len(pks) < MaxWipeKeys /\ task = NoTask
       /\ DerivePasswordKey(params, NoStep, TRUE)
  \/ \E p \in 1 .. Len(pks) :
       /\ Len(mks) < MaxWipeKeys /\ task = NoTask
       /\ GenerateMasterKey(p, NoStep)
  \/ \E data \in Plaintexts, m \in 1 .. Len(mks) :
       Len(eds) < MaxTwice /\ BeginEncrypt(data, m)
  \/ SealLayer
  \/ EndEncrypt
  \/ \E m \in 1 .. Len(mks) : WipeMasterKey(m)
  \/ Return

SpecAwait == Init /\ [][NextAwait]_vars

\* ---------------------------------------------------------------------
\* Two instances whose layer lists have the same length
\* ---------------------------------------------------------------------
\* A second instance, of the layer list other, derives the layer keys of
\* params for purpose context; this instance derives its own, seals data
\* under the second instance's key object and opens the result with its own.
CrossInstance(params, other, context, data) ==
  /\ inst = "made"
  /\ Len(other) = Len(layers)
  /\ ~argon2Throws(params.opsLimit, params.memLimit)
  /\ LET key == argon2(params.password, params.salt, params.opsLimit,
                       params.memLimit)
         theirs == deriveLayerKeys(key, other, context, -1).keys
         ours == deriveLayerKeys(key, layers, context, -1).keys
         sealed == cascadeEncrypt(data, layers, Contents(theirs),
                                  Nonces("blob", 1, "seal"), -1)
         r == cascadeDecrypt(sealed.val, layers, Contents(ours), -1)
     IN ret' = [NoRet EXCEPT !.op = "crossInstance",
                  !.ok = sealed.ok /\ r.ok, !.err = r.err, !.cfg = layers,
                  !.val = r.val, !.keys = Contents(ours),
                  !.opens = Labelled("blob", r.opens),
                  !.arg = <<data, sealed.val, theirs, other>>]
  /\ UNCHANGED <<config, inst, validated, mem, pks, mks, emks, eds,
                 pkSrc, mkSrc, emkSrc, edSrc>>
  /\ sodium' = Awaited(sodium)
  /\ UNCHANGED task

NextCross ==
  \E params \in PasswordKeyParams, other \in LayerLists(MaxL),
     context \in Contexts, data \in Plaintexts :
    CrossInstance(params, other, context, data)

SpecCross == Init /\ [][NextCross]_vars

\* ---------------------------------------------------------------------
\* Properties
\* ---------------------------------------------------------------------
Ops ==
  {"derivePasswordKey", "generateMasterKey", "unlockMasterKey",
   "encrypt", "decrypt", "changePassword"}

EmptyPlaintext == <<"data", <<>> >>

\* C1: decrypt of an unmodified EncryptedData with the master key that encrypt
\* was given succeeds and returns exactly the plaintext that was encrypted,
\* the empty plaintext included, for every layer list of the instance.
RoundTrip ==
  (ret.op = "decrypt" /\ ret.tamper = NoTamper /\ edSrc[ret.ed].mk = ret.mk)
    => (ret.ok /\ ret.val = edSrc[ret.ed].plaintext)

\* A round trip of the empty plaintext through two layers of different suites.
RoundTripEmpty ==
  /\ ret.op = "decrypt" /\ ret.tamper = NoTamper
  /\ edSrc[ret.ed].mk = ret.mk
  /\ mkSrc[ret.mk].via = "generateMasterKey"
  /\ edSrc[ret.ed].plaintext = EmptyPlaintext
  /\ ret.ok /\ ret.val = EmptyPlaintext
  /\ Len(ret.cfg) >= 2 /\ ret.cfg[1] # ret.cfg[2]

\* Master key u was unlocked from the blob that generateMasterKey returned
\* together with master key g, with a password key of the same password,
\* salt and cost parameters.
Equivalent(g, u) ==
  /\ mkSrc[g].via = "generateMasterKey"
  /\ mkSrc[u].via = "unlockMasterKey"
  /\ mkSrc[u].emk = mkSrc[g].emk
  /\ mkSrc[u].by = mkSrc[g].by

\* C2: unlockMasterKey of a generated blob with a password key of the same
\* password, salt and cost succeeds, and the unlocked key and the generated
\* key are interchangeable: data encrypted under either one decrypts to the
\* original plaintext under the other.
UnlockedEquivalent ==
  /\ (ret.op = "unlockMasterKey"
        /\ emkSrc[ret.emk].via = "generateMasterKey"
        /\ pkSrc[ret.pk] = emkSrc[ret.emk].by)
       => ret.ok
  /\ (ret.op = "decrypt" /\ ret.tamper = NoTamper
        /\ (\/ Equivalent(edSrc[ret.ed].mk, ret.mk)
            \/ Equivalent(ret.mk, edSrc[ret.ed].mk)))
       => (ret.ok /\ ret.val = edSrc[ret.ed].plaintext)

\* Data encrypted under the generated key, decrypted under the unlocked one.
UnlockedDecrypts ==
  /\ ret.op = "decrypt" /\ ret.ok
  /\ Equivalent(edSrc[ret.ed].mk, ret.mk)
  /\ ret.val = edSrc[ret.ed].plaintext
  /\ Len(ret.cfg) >= 2

\* C3: unlockMasterKey with a password key derived from another password than
\* the one whose key sealed the blob fails and returns no MasterKey.
WrongPasswordFails ==
  (ret.op = "unlockMasterKey"
     /\ pkSrc[ret.pk].password # emkSrc[ret.emk].by.password)
    => (~ret.ok /\ ret.out = 0)

\* A generated blob, tried with the key of another password.
WrongPasswordTried ==
  /\ ret.op = "unlockMasterKey"
  /\ emkSrc[ret.emk].via = "generateMasterKey"
  /\ pkSrc[ret.pk].password # emkSrc[ret.emk].by.password
  /\ pkSrc[ret.pk].salt = emkSrc[ret.emk].by.salt
  /\ ~ret.ok
  /\ Len(ret.cfg) >= 2

\* C4: decrypt, with the correct master key, of an EncryptedData in which one
\* position of the ciphertext or of the wrapped content key was modified
\* fails and returns no plaintext; the last open invoked is the one of the
\* outermost layer L-1 of the modified blob, and no open of an inner layer
\* of that blob is invoked.
TamperRejected ==
  (ret.op = "decrypt" /\ ret.tamper # NoTamper /\ edSrc[ret.ed].mk = ret.mk)
    => /\ ~ret.ok
       /\ ret.val = Zero(0)
       /\ Len(ret.opens) >= 1
       /\ ret.opens[Len(ret.opens)] = <<ret.tamper[1], Len(ret.cfg) - 1>>
       /\ \A j \in 1 .. Len(ret.opens) :
            ret.opens[j][1] = ret.tamper[1]
              => ret.opens[j][2] = Len(ret.cfg) - 1

\* A two-layer item whose ciphertext body was modified, under the right key.
TamperedBody ==
  /\ ret.op = "decrypt" /\ ret.tamper = <<"ciphertext", "body">>
  /\ edSrc[ret.ed].mk = ret.mk
  /\ ~ret.ok
  /\ Len(ret.cfg) >= 2

\* Decrypt was called with a master key unlocked from a blob that a chain of
\* changePassword calls made out of the blob generated with the master key
\* that encrypted the item.
AfterChain ==
  /\ ret.op = "decrypt" /\ ret.tamper = NoTamper
  /\ mkSrc[ret.mk].via = "unlockMasterKey"
  /\ emkSrc[mkSrc[ret.mk].emk].chain >= 1
  /\ mkSrc[edSrc[ret.ed].mk].via = "generateMasterKey"
  /\ mkSrc[edSrc[ret.ed].mk].emk = emkSrc[mkSrc[ret.mk].emk].root

ChainUnlocks ==
  /\ (ret.op = "unlockMasterKey" /\ emkSrc[ret.emk].chain >= 1
        /\ pkSrc[ret.pk] = emkSrc[ret.emk].by)
       => ret.ok
  /\ AfterChain => (ret.ok /\ ret.val = edSrc[ret.ed].plaintext)

\* C5: after any chain of changePassword calls, unlockMasterKey of the last
\* blob with the newest password key succeeds and its master key decrypts
\* the data encrypted under the originally generated master key; and a
\* changePassword call leaves every EncryptedData as it was.
ChainKeepsData ==
  /\ []ChainUnlocks
  /\ [][ret'.op = "changePassword" => (eds' = eds /\ edSrc' = edSrc)]_vars

\* A chain of two password changes between different passwords.
ChainOfTwo ==
  /\ AfterChain
  /\ ret.ok
  /\ emkSrc[mkSrc[ret.mk].emk].chain = 2
  /\ emkSrc[mkSrc[ret.mk].emk].by.password
       # emkSrc[mkSrc[ret.mk].emk].old.password

\* C6: when changePassword was given password keys of two different
\* passwords, unlockMasterKey of the blob it returned with the old password
\* key fails.
OldPasswordLocked ==
  (ret.op = "unlockMasterKey"
     /\ emkSrc[ret.emk].via = "changePassword"
     /\ emkSrc[ret.emk].old.password # emkSrc[ret.emk].by.password
     /\ pkSrc[ret.pk] = emkSrc[ret.emk].old)
    => (~ret.ok /\ ret.out = 0)

\* The old password key tried on the changed blob.
OldPasswordTried ==
  /\ ret.op = "unlockMasterKey"
  /\ emkSrc[ret.emk].via = "changePassword"
  /\ emkSrc[ret.emk].old.password # emkSrc[ret.emk].by.password
  /\ pkSrc[ret.pk] = emkSrc[ret.emk].old
  /\ ~ret.ok

\* C7: cascade(config) throws 'at least one layer' for an empty list,
\* 'at most 10 layers' for a list of more than ten entries, and throws when an
\* entry is not registered; it returns an instance exactly when the list has
\* 1 to 10 entries, all of them registered.
ConfigValidated ==
  ret.op = "cascade" =>
    /\ Len(ret.cfg) = 0
         => (~ret.ok /\ ret.err = "Cascade requires at least one layer")
    /\ Len(ret.cfg) > 10
         => (~ret.ok /\ ret.err = "Cascade supports at most 10 layers")
    /\ (\E i \in 1 .. Len(ret.cfg) : ret.cfg[i] \notin Registered) => ~ret.ok
    /\ ret.ok <=> ValidLayers(ret.cfg)
    /\ ret.ok <=> inst = "made"

\* A list of eleven registered layers is refused.
ElevenRefused ==
  /\ ret.op = "cascade"
  /\ Len(ret.cfg) = 11
  /\ \A i \in 1 .. Len(ret.cfg) : ret.cfg[i] \in Registered
  /\ ~ret.ok

\* C8: the layer list an operation of the instance uses is the list that was
\* validated at construction, and is a valid one, whatever the caller did to
\* the config.layers array since.
LayersFixed ==
  ret.op = "derivePasswordKey"
    => (ret.cfg = validated /\ ValidLayers(ret.cfg))

\* C9: two EncryptedData values that encrypt returned for the same plaintext
\* and the same master key differ in the wrapped content key and in the
\* ciphertext, and each call drew 32 bytes of content material of its own.
FreshPerCall ==
  \A i, j \in 1 .. Len(eds) :
    (i # j /\ edSrc[i].plaintext = edSrc[j].plaintext
       /\ edSrc[i].mk = edSrc[j].mk)
      => /\ eds[i].encryptedContentKey # eds[j].encryptedContentKey
         /\ eds[i].ciphertext # eds[j].ciphertext
         /\ edSrc[i].raw # edSrc[j].raw
         /\ ByteLen(edSrc[i].raw) = 32

\* The same plaintext encrypted twice under one master key.
EncryptedTwice ==
  /\ Len(eds) = 2
  /\ edSrc[1].plaintext = edSrc[2].plaintext
  /\ edSrc[1].mk = edSrc[2].mk
  /\ Len(config) >= 2

\* C10: when one of the six operations returns or throws, every 32-byte root
\* buffer it created (password-hash output, raw master material, raw content
\* material) is all-zero, whichever later step failed; generateMasterKey and
\* encrypt, which draw their material before any step that can fail, have
\* created one.  (sodium.memzero itself is taken not to fail.)
RootsWiped ==
  ret.op \in Ops =>
    /\ \A i \in 1 .. Len(ret.roots) : ret.roots[i] = Zero(32)
    /\ ret.op \in {"generateMasterKey", "encrypt"} => Len(ret.roots) = 1

\* encrypt fails in the seal of the data, after the content material was
\* drawn and the content key wrapped.
SealFailed ==
  /\ ret.op = "encrypt"
  /\ ret.fault[1] = "seal2"
  /\ ~ret.ok
  /\ Len(ret.roots) = 1

\* C11: when encrypt or decrypt returns, every per-item content layer key the
\* call derived is all-zero.
ContentKeysWiped ==
  (ret.op \in {"encrypt", "decrypt"} /\ ret.ok)
    => \A i \in 1 .. Len(ret.keys) : ret.keys[i] = Zero(KEY_LENGTH)

\* The errors the suites' AEAD primitives raise on a failed authentication.
SuiteErrors == {AuthError(a) : a \in Registered}

\* unlockMasterKey was given the key of another password than the one that
\* sealed the blob.
UnlockAuthFails ==
  /\ ret.op = "unlockMasterKey" /\ ret.fault = NoStep
  /\ pkSrc[ret.pk].password # emkSrc[ret.emk].by.password

\* decrypt was given a master key of other raw material than the one that
\* wrapped the item's content key, or a modified item.
DecryptAuthFails ==
  /\ ret.op = "decrypt" /\ ret.fault = NoStep
  /\ \/ mkSrc[ret.mk].raw # mkSrc[edSrc[ret.ed].mk].raw
     \/ ret.tamper # NoTamper

\* C12: an authentication failure inside unlockMasterKey reaches the caller as
\* WrongPasswordOrTampered and one inside decrypt as WrongKeyOrTampered; the
\* caller never receives the suite's own error.
ErrorKinds ==
  /\ UnlockAuthFails => (~ret.ok /\ ret.err = "WrongPasswordOrTampered")
  /\ DecryptAuthFails => (~ret.ok /\ ret.err = "WrongKeyOrTampered")
  /\ (ret.op \in {"unlockMasterKey", "decrypt"} /\ ~ret.ok)
       => ret.err \notin SuiteErrors

\* C13: two failed opens of the same blob that differ only in the layer whose
\* authentication check failed give the caller the same error.
SameError ==
  [][(/\ ret.op = "cascadeDecrypt" /\ ret'.op = "cascadeDecrypt"
      /\ ~ret.ok /\ ~ret'.ok
      /\ ret'.arg[2] = ret.arg[2])
       => ret'.err = ret.err]_vars

\* The bytes one layer of a suite adds to what it seals.
Overhead(alg) ==
  CASE alg = AES_256_GCM -> 28
    [] alg = XCHACHA20_POLY1305 -> 40
    [] alg = AES_256_CTR_HMAC -> 48

RECURSIVE SumOverhead(_)
SumOverhead(l) ==
  IF l = <<>> THEN 0 ELSE Overhead(Head(l)) + SumOverhead(Tail(l))

\* C14: the ciphertext encrypt returns is as long as the plaintext plus the
\* overheads of the layers (28 for AES-256-GCM, 40 for XChaCha20-Poly1305, 48
\* for AES-256-CTR-HMAC); the wrapped content key and every
\* encryptedMasterKey are 32 bytes plus that sum long; the layers
\* [AES-256-GCM, XChaCha20-Poly1305] over the empty plaintext give 68 bytes.
BlobLengths ==
  /\ \A d \in 1 .. Len(eds) :
       /\ ByteLen(eds[d].ciphertext)
            = ByteLen(edSrc[d].plaintext) + SumOverhead(config)
       /\ ByteLen(eds[d].encryptedContentKey) = 32 + SumOverhead(config)
       /\ (config = <<AES_256_GCM, XCHACHA20_POLY1305>>
             /\ edSrc[d].plaintext = EmptyPlaintext)
            => ByteLen(eds[d].ciphertext) = 68
  /\ \A e \in 1 .. Len(emks) : ByteLen(emks[e]) = 32 + SumOverhead(config)
  /\ ret.op = "aesCtrHmac.encrypt"
       => ByteLen(ret.val) = ByteLen(ret.arg[1]) + SumOverhead(ret.cfg)

\* The empty plaintext under [AES-256-GCM, XChaCha20-Poly1305], with a
\* changed password.
SixtyEight ==
  /\ config = <<AES_256_GCM, XCHACHA20_POLY1305>>
  /\ Len(eds) = 1 /\ edSrc[1].plaintext = EmptyPlaintext
  /\ ByteLen(eds[1].ciphertext) = 68
  /\ \E e \in 1 .. Len(emks) : emkSrc[e].via = "changePassword"

\* C15: no operation of an instance writes to one of its inputs: the layer
\* key bytes of the key objects, and the encrypted blobs, that exist before a
\* call are the same after it.
InputsUntouched ==
  [][(ret.op = "none" /\ ret'.op \in Ops)
       => /\ \A b \in DOMAIN mem : mem'[b] = mem[b]
          /\ \A e \in 1 .. Len(emks) : emks'[e] = emks[e]
          /\ \A d \in 1 .. Len(eds) : eds'[d] = eds[d]]_vars

AllZero(keyObject) ==
  \A i \in 1 .. Len(keyObject.layerKeys) :
    mem[keyObject.layerKeys[i].key] = Zero(KEY_LENGTH)

\* C16: when wipePasswordKey(pk) or wipeMasterKey(mk) has completed, every
\* layer key of that key object is all-zero, also when the key had been wiped
\* before; wiping an empty buffer leaves an empty buffer.
WipedKeysZero ==
  /\ (ret.op = "wipePasswordKey") => (ret.ok /\ AllZero(pks[ret.pk]))
  /\ (ret.op = "wipeMasterKey") => (ret.ok /\ AllZero(mks[ret.mk]))
  /\ secureWipe(EmptyPlaintext) = Zero(0)

\* A two-layer master key is wiped a second time.
WipedTwice ==
  /\ ret.op = "wipeMasterKey"
  /\ Len(mks[ret.mk].layerKeys) = 2
  /\ \A i \in 1 .. Len(ret.keys) : ret.keys[i] = Zero(KEY_LENGTH)
  /\ AllZero(mks[ret.mk])

\* uninitialized (0), initializing (1), ready (2)
Stage(s) == IF s.ready = 0 THEN 0 ELSE IF s.loaded THEN 2 ELSE 1

\* C17: whatever the interleaving of getSodium() calls, _sodium.ready.then
\* is called at most once, every caller is given the one cached promise, the
\* cached promise is never replaced once set, and the module never goes back
\* from ready to initializing or from initializing to uninitialized.
InitializedOnce ==
  /\ [](sodium.started <= 1)
  /\ [](\A c \in Callers :
          sodium.callers[c].pc # "idle" =>
            (sodium.ready # 0 /\ sodium.callers[c].promise = sodium.ready))
  /\ [][sodium.ready # 0 => sodium'.ready = sodium.ready]_vars
  /\ [][Stage(sodium') >= Stage(sodium)]_vars

\* Two callers await the promise before the module has loaded.
TwoAwaiting ==
  /\ ~sodium.loaded
  /\ \E c \in Callers, d \in Callers :
       /\ c # d
       /\ sodium.callers[c].pc = "awaiting"
       /\ sodium.callers[d].pc = "awaiting"

\* The layer keys deriveLayerKeys gives for the root of the last probe under
\* purpose context.
KeysFor(context) ==
  Contents(deriveLayerKeys(ret.arg[4], layers, context, -1).keys)

\* C18: with a KDF that is injective in (root, purpose, index), the layer
\* keys derived from one root for the purposes PASSWORD, MASTER and CONTENT
\* are pairwise distinct at every index, and within one purpose the keys at
\* two different indices are distinct, also under one algorithm.
KeysSeparated ==
  ret.op = "cascadeDecrypt" =>
    /\ ret.keys = KeysFor(ret.arg[5])
    /\ \A i \in 1 .. Len(layers) : \A c \in Contexts, d \in Contexts :
         c # d => KeysFor(c)[i] # KeysFor(d)[i]
    /\ \A c \in Contexts : \A i \in 1 .. Len(layers), j \in 1 .. Len(layers) :
         i # j => KeysFor(c)[i] # KeysFor(c)[j]

\* Keys were derived for two layers of one algorithm.
SameAlgorithmTwice ==
  /\ ret.op = "cascadeDecrypt"
  /\ layers = <<AES_256_GCM, AES_256_GCM>>
  /\ ret.keys[1] # ret.keys[2]

\* The (layer key, nonce) pairs of the seal calls that made a blob.
RECURSIVE Seals(_)
Seals(v) ==
  IF v[1] = "blob" THEN {<<v[3], v[4]>>} \cup Seals(v[5]) ELSE {}

\* Every blob generateMasterKey, changePassword and encrypt have returned.
Sealed ==
  emks \o [d \in 1 .. Len(eds) |-> eds[d].encryptedContentKey]
       \o [d \in 1 .. Len(eds) |-> eds[d].ciphertext]

\* C19: the nonce of every seal call is a draw the suite made from the CSPRNG
\* inside the call, of the suite's nonce length; with a CSPRNG that never
\* repeats, no two seal calls of generateMasterKey, encrypt and
\* changePassword use the same (layer key, nonce) pair.
NoNonceReuse ==
  /\ \A i \in 1 .. Len(Sealed) :
       /\ Cardinality(Seals(Sealed[i])) = Len(config)
       /\ \A s \in Seals(Sealed[i]) : s[2][1] = "rnd"
       /\ \A j \in 1 .. Len(Sealed) :
            i # j => Seals(Sealed[i]) \cap Seals(Sealed[j]) = {}
  /\ ret.op = "aesCtrHmac.encrypt"
       => (ret.val[4][1] = "rnd" /\ ByteLen(ret.val[4]) = COUNTER_LENGTH)

\* Two encryptedMasterKeys sealed under one password key, a changed password
\* and an encrypted item, under two layers.
SealedOften ==
  /\ Len(config) = 2 /\ Len(eds) = 1
  /\ \E e \in 1 .. Len(emks), f \in 1 .. Len(emks) :
       e # f /\ emkSrc[e].by = emkSrc[f].by
  /\ \E e \in 1 .. Len(emks) : emkSrc[e].via = "changePassword"

\* The number of layers sealed around the innermost plaintext of a blob.
RECURSIVE Depth(_)
Depth(v) == IF v[1] = "blob" THEN 1 + Depth(v[5]) ELSE 0

\* C20: an operation that fails at any step gives its caller the error and
\* no output: no key object and no blob is added.  generateMasterKey yields
\* a MasterKey and an encryptedMasterKey together or neither, every
\* EncryptedData has both its fields, and every blob an operation returns has
\* been sealed by all the layers.
NoPartialOutput ==
  /\ [][(ret.op = "none" /\ ret'.op \in Ops /\ ~ret'.ok)
          => /\ ret'.out = 0 /\ ret'.err # ""
             /\ pks' = pks /\ mks' = mks /\ emks' = emks /\ eds' = eds]_vars
  /\ [][(ret.op = "none" /\ ret'.op = "generateMasterKey")
          => (Len(mks') = Len(mks) + 1 <=> Len(emks') = Len(emks) + 1)]_vars
  /\ [](\A e \in 1 .. Len(emks) : Depth(emks[e]) = Len(config))
  /\ [](\A d \in 1 .. Len(eds) :
          /\ DOMAIN eds[d] = {"encryptedContentKey", "ciphertext"}
          /\ Depth(eds[d].encryptedContentKey) = Len(config)
          /\ Depth(eds[d].ciphertext) = Len(config))

\* generateMasterKey, and encrypt, fail in the seal of the second layer.
SecondLayerFailed ==
  /\ ret.op \in {"generateMasterKey", "encrypt"}
  /\ ~ret.ok
  /\ FailAt(ret.fault, "seal") = 1

\* The frames of a blob, the outermost first.
RECURSIVE Frames(_)
Frames(v) == IF v[1] = "blob" THEN <<v>> \o Frames(v[5]) ELSE <<>>

\* C21: cascadeEncrypt seals with the suites in index order 0 .. L-1, each
\* around the previous layer's output and under layerKeys[i]; cascadeDecrypt
\* invokes the opens one after the other in the order L-1 .. 0; with the
\* matching key list cascadeDecrypt(cascadeEncrypt(x)) = x.
LayersInOrder ==
  ret.op = "cascadeDecrypt" =>
    LET fr == Frames(ret.arg[2])
        L == Len(layers)
    IN /\ Len(fr) = L
       /\ \A i \in 0 .. L - 1 :
            /\ fr[L - i][2] = layers[i + 1]
            /\ fr[L - i][3] = ret.keys[i + 1]
            /\ fr[L - i][5] = IF i = 0 THEN ret.arg[1] ELSE fr[L - i + 1]
       /\ Len(ret.opens) <= L
       /\ \A k \in 1 .. Len(ret.opens) : ret.opens[k] = <<"blob", L - k>>
       /\ ret.arg[3] = -1
            => (ret.ok /\ ret.val = ret.arg[1] /\ Len(ret.opens) = L)

\* A cascade of two different suites sealed and opened with matching keys.
MixedRoundTrip ==
  /\ ret.op = "cascadeDecrypt"
  /\ ret.arg[3] = -1
  /\ layers = <<AES_256_GCM, XCHACHA20_POLY1305>>
  /\ ret.ok /\ ret.val = ret.arg[1]
  /\ ret.opens = << <<"blob", 1>>, <<"blob", 0>> >>

\* C22: decrypt of an EncryptedData whose wrapped content key was modified
\* fails before it derives a content layer key and before it invokes a suite
\* open on the ciphertext field.
WrappedKeyFirst ==
  (ret.op = "decrypt" /\ ret.tamper[1] = "encryptedContentKey")
    => /\ ~ret.ok
       /\ ret.keys = <<>>
       /\ \A j \in 1 .. Len(ret.opens) : ret.opens[j][1] # "ciphertext"

\* The tag of the wrapped content key of a two-layer item was modified, and
\* decrypt was given the master key that encrypted the item.
TamperedWrappedKey ==
  /\ ret.op = "decrypt" /\ ret.tamper = <<"encryptedContentKey", "tag">>
  /\ edSrc[ret.ed].mk = ret.mk
  /\ ~ret.ok
  /\ Len(ret.cfg) = 2
  /\ Len(ret.opens) = 1

\* C23: when the open of layer i fails in cascadeDecrypt, the error is
\* thrown at once: the open of layer i is the last one invoked, so that no
\* layer below i is opened, and cascadeDecrypt returns no value.
FailsAtOnce ==
  ret.op = "cascadeDecrypt" =>
    /\ ret.ok <=> ret.arg[3] = -1
    /\ ~ret.ok
         => /\ ret.val = Zero(0)
            /\ Len(ret.opens) = Len(layers) - ret.arg[3]
            /\ ret.opens[Len(ret.opens)] = <<"blob", ret.arg[3]>>
            /\ \A k \in 1 .. Len(ret.opens) : ret.opens[k][2] >= ret.arg[3]

\* The outer layer of a two-layer cascade is opened with a wrong key.
OuterOpenFailed ==
  /\ ret.op = "cascadeDecrypt"
  /\ Len(layers) = 2
  /\ ret.arg[3] = 1
  /\ ~ret.ok
  /\ ret.opens = << <<"blob", 1>> >>

\* The nonce-plus-tag length of a suite.
MinLength(alg) == IF alg = AES_256_GCM THEN 28 ELSE 40

\* C24: seal and open of AES-256-GCM and XChaCha20-Poly1305 reject a key
\* that is not 32 bytes long before anything else; open rejects a blob
\* shorter than nonce plus tag with "ciphertext too short" before it invokes
\* the AEAD primitive; with both invalid the key-length error is reported.
SuiteChecksFirst ==
  ret.op \in {"suite.encrypt", "suite.decrypt"} =>
    LET alg == ret.arg[1]
        data == ret.arg[2]
        key == ret.arg[3]
    IN /\ ByteLen(key) # 32
            => (~ret.ok /\ ret.err = "key must be 32 bytes")
       /\ (ret.op = "suite.decrypt" /\ ByteLen(key) = 32
             /\ ByteLen(data) < MinLength(alg))
            => (~ret.ok /\ ret.err = "ciphertext too short")
       /\ (ret.op = "suite.decrypt" /\ ByteLen(key) = 32
             /\ ByteLen(data) >= MinLength(alg))
            => ret.err \notin {"key must be 32 bytes", "ciphertext too short"}
       /\ (ret.op = "suite.encrypt" /\ ByteLen(key) = 32)
            => ret.err # "key must be 32 bytes"

\* A 31-byte key and a 27-byte blob given to the open of a suite whose AEAD
\* primitive would refuse the call.
BothInvalid ==
  /\ ret.op = "suite.decrypt"
  /\ ByteLen(ret.arg[3]) = 31
  /\ ByteLen(ret.arg[2]) = 27
  /\ ret.arg[4]
  /\ ret.err = "key must be 32 bytes"

\* C25: aesCtrHmac.decrypt checks the minimum length, computes the HMAC over
\* counter || ciphertext, compares it with the received MAC in a loop that
\* reads all 32 bytes wherever the first mismatch is, and only then decrypts
\* with AES-CTR; when the MAC does not match, AES-CTR is never invoked and
\* "HMAC verification failed" is raised.
MacBeforeDecrypt ==
  ret.op = "aesCtrHmac.decrypt" =>
    LET steps == ret.opens
        order == <<"length", "sign", "compare", "decrypt">>
    IN /\ Len(steps) \in {1, 3, 4}
       /\ steps = SubSeq(order, 1, Len(steps))
       /\ Len(steps) >= 3 => ret.out = 32
       /\ Len(steps) = 1
            <=> (ByteLen(ret.arg[1]) < 48 /\ ret.err = "ciphertext too short")
       /\ (ByteLen(ret.arg[1]) >= 48 /\ ret.arg[2] # {})
            => /\ ~ret.ok
               /\ ret.err = "HMAC verification failed"
               /\ Len(steps) = 3
       /\ ret.ok <=> Len(steps) = 4

\* The MAC of a frame whose body was modified differs in its first byte.
FirstByteDiffers ==
  /\ ret.op = "aesCtrHmac.decrypt"
  /\ ret.arg[1][1] = "blob" /\ ret.arg[1][6] = "body"
  /\ ret.arg[2] = {0}
  /\ ~ret.ok
  /\ ret.out = 32

\* The buffers of a key object's layer keys.
Buffers(keyObject) ==
  {keyObject.layerKeys[i].key : i \in 1 .. Len(keyObject.layerKeys)}

\* The key objects the caller holds.
KeyObjects ==
  {<<"pk", p>> : p \in 1 .. Len(pks)} \cup {<<"mk", m>> : m \in 1 .. Len(mks)}

KeyObject(k) == IF k[1] = "pk" THEN pks[k[2]] ELSE mks[k[2]]

\* The wrapped content key of item d was sealed under layer keys that had not
\* been wiped.
SealedUnwiped(d) ==
  \A i \in 1 .. Len(Frames(eds[d].encryptedContentKey)) :
    Frames(eds[d].encryptedContentKey)[i][3] # Zero(KEY_LENGTH)

\* C26: no two key objects share a layer-key buffer, and a wipe changes the
\* buffers of its own key object only; so a master key that was not wiped
\* still encrypts, and decrypts what a key of the same master material
\* encrypted, whatever other key objects (the password key it was generated
\* or unlocked under, another master key unlocked from the same blob) have
\* been wiped.
KeysIndependent ==
  /\ [](\A k \in KeyObjects, l \in KeyObjects :
          k # l => Buffers(KeyObject(k)) \cap Buffers(KeyObject(l)) = {})
  /\ [][(ret.op = "none" /\ ret'.op = "wipeMasterKey")
          => \A b \in DOMAIN mem \ Buffers(mks[ret'.mk]) : mem'[b] = mem[b]]_vars
  /\ [][(ret.op = "none" /\ ret'.op = "wipePasswordKey")
          => \A b \in DOMAIN mem \ Buffers(pks[ret'.pk]) : mem'[b] = mem[b]]_vars
  /\ []((ret.op = "encrypt" /\ ~AllZero(mks[ret.mk]))
          => (ret.ok /\ SealedUnwiped(ret.out)))
  /\ []((ret.op = "decrypt" /\ ~AllZero(mks[ret.mk])
           /\ SealedUnwiped(ret.ed)
           /\ mkSrc[ret.mk].raw = mkSrc[edSrc[ret.ed].mk].raw)
          => (ret.ok /\ ret.val = edSrc[ret.ed].plaintext))

\* The unlocked master key decrypts after the generated master key of the
\* same blob and the password key have been wiped.
OthersWiped ==
  /\ ret.op = "decrypt" /\ ret.ok
  /\ mkSrc[ret.mk].via = "unlockMasterKey"
  /\ \E m \in 1 .. Len(mks) :
       /\ m # ret.mk
       /\ mkSrc[m].via = "generateMasterKey"
       /\ mkSrc[ret.mk].emk = mkSrc[m].emk
       /\ AllZero(mks[m])
  /\ AllZero(pks[1])
  /\ Len(ret.cfg) = 2

\* The wrapped content key of item d was sealed under all-zero layer keys.
SealedWiped(d) ==
  \A i \in 1 .. Len(Frames(eds[d].encryptedContentKey)) :
    Frames(eds[d].encryptedContentKey)[i][3] = Zero(KEY_LENGTH)

\* C27: a wiped master key is accepted as a key.  encrypt with it succeeds
\* and seals the wrapped content key under all-zero layer keys, so that any
\* wiped master key of the instance decrypts the result; decrypt with it of
\* an item encrypted before the wipe fails with the authentication error of
\* the outermost layer's suite.
WipedKeyAccepted ==
  /\ (ret.op = "encrypt" /\ AllZero(mks[ret.mk]))
       => (ret.ok /\ SealedWiped(ret.out))
  /\ (ret.op = "decrypt" /\ AllZero(mks[ret.mk]) /\ SealedWiped(ret.ed))
       => (ret.ok /\ ret.val = edSrc[ret.ed].plaintext)
  /\ (ret.op = "decrypt" /\ AllZero(mks[ret.mk]) /\ SealedUnwiped(ret.ed))
       => (~ret.ok /\ ret.err = AuthError(ret.cfg[Len(ret.cfg)]))

\* An item encrypted under one wiped master key is decrypted under another.
AnyWipedKeyOpens ==
  /\ ret.op = "decrypt" /\ ret.ok
  /\ ret.mk # edSrc[ret.ed].mk
  /\ AllZero(mks[ret.mk])
  /\ SealedWiped(ret.ed)
  /\ ret.val = edSrc[ret.ed].plaintext

\* An item encrypted before the wipe is given to decrypt with the wiped key.
WipedKeyFails ==
  /\ ret.op = "decrypt" /\ ~ret.ok
  /\ ret.mk = edSrc[ret.ed].mk
  /\ AllZero(mks[ret.mk])
  /\ SealedUnwiped(ret.ed)

\* C28: the wrapped content key of every EncryptedData that encrypt returns
\* has all its layers sealed under one snapshot of the master key's layer
\* keys (all of them as derived, or all of them wiped), also when
\* wipeMasterKey runs while encrypt is suspended between two layers.
SnapshotSealed ==
  \A d \in 1 .. Len(eds) : SealedUnwiped(d) \/ SealedWiped(d)

\* C29: the bytes of the layer-i key do not depend on the algorithm at
\* position i: two instances whose layer lists differ in an algorithm derive
\* the same layer keys from the same password, salt and cost; and the
\* cascades take the suite of each layer from the instance's layer list,
\* whatever the algorithm field of the layer key says.
AlgorithmNotBound ==
  ret.op = "crossInstance" =>
    LET theirs == ret.arg[3]
        fr == Frames(ret.arg[2])
        L == Len(ret.cfg)
    IN /\ \A i \in 1 .. L :
            /\ theirs[i].algorithm = ret.arg[4][i]
            /\ theirs[i].key = ret.keys[i]
            /\ fr[L + 1 - i][2] = ret.cfg[i]
       /\ ret.ok
       /\ ret.val = ret.arg[1]

\* The two layer lists differ at both positions.
ListsDiffer ==
  /\ ret.op = "crossInstance"
  /\ Len(ret.cfg) = 2
  /\ ret.arg[4][1] # ret.cfg[1] /\ ret.arg[4][2] # ret.cfg[2]
  /\ ret.ok

\* Blob e was the encryptedMasterKey argument of the changePassword call that
\* returned blob n.
Rewrapped(e, n) ==
  /\ n \in 1 .. Len(emks) /\ e \in 1 .. Len(emks) /\ e # n
  /\ emkSrc[n].via = "changePassword"
  /\ emkSrc[n].chain = emkSrc[e].chain + 1
  /\ emkSrc[n].old = emkSrc[e].by
  /\ emkSrc[n].root = (IF emkSrc[e].chain = 0 THEN e ELSE emkSrc[e].root)

\* The bytes under all the layers of a blob.
RECURSIVE Payload(_)
Payload(v) == IF v[1] = "blob" THEN Payload(v[5]) ELSE v

\* unlockMasterKey of a blob that changePassword has rewrapped, with the key
\* the blob was sealed under, succeeds and yields the raw master material
\* that the blob changePassword returned holds.
OldWrapperOpens ==
  (ret.op = "unlockMasterKey"
     /\ pkSrc[ret.pk] = emkSrc[ret.emk].by
     /\ \E n \in 1 .. Len(emks) : Rewrapped(ret.emk, n))
    => /\ ret.ok
       /\ \A n \in 1 .. Len(emks) :
            Rewrapped(ret.emk, n) => Payload(emks[n]) = mkSrc[ret.out].raw

\* C30: changePassword does not revoke the old wrapper: the blob it was given
\* is unchanged after the call, unlockMasterKey of that blob with the old
\* password key still succeeds, and the master key it yields has the raw
\* master material of the blob changePassword returned.
OldWrapperKept ==
  /\ [][(ret.op = "none" /\ ret'.op = "changePassword")
          => \A e \in 1 .. Len(emks) : emks'[e] = emks[e]]_vars
  /\ []OldWrapperOpens

\* The old blob unlocked with the old password key after a password change.
OldWrapperUnlocked ==
  /\ ret.op = "unlockMasterKey" /\ ret.ok
  /\ pkSrc[ret.pk] = emkSrc[ret.emk].by
  /\ \E n \in 1 .. Len(emks) :
       Rewrapped(ret.emk, n) /\ emkSrc[n].by.password # emkSrc[n].old.password

====
